---- MODULE Spec2Model ----
(***************************************************************************)
(* Model of the Helix Hub back end (api/src/functions/getAnnualLeave.ts    *)
(* and getAttendance.ts): the two Azure Function handlers, their module    *)
(* level caches, and the date / routing helpers they call.                 *)
(*                                                                         *)
(* A handler is an async function: the code between two awaits runs        *)
(* without interruption on the Node event loop, so every action below is   *)
(* one such segment (the resumption after an await up to the next await    *)
(* or return).  Several invocations may be in flight in one process; the   *)
(* module variables (the caches) are shared between them.                  *)
(***************************************************************************)
EXTENDS Integers, Sequences, FiniteSets, TLC

(***************************************************************************)
(* JavaScript values.  null / undefined is Null, any other value v of a    *)
(* nullable position is Some(v), so that an empty list, an empty string    *)
(* and an empty Map stay different from null.  JS strings that the code    *)
(* takes apart (AOW) are sequences of one-character strings; strings it    *)
(* only compares (initials, names) are TLA+ strings.                       *)
(***************************************************************************)
Null == <<>>
Some(v) == <<v>>
Get(o) == o[1]

\* Bounds of the model.
MaxInvocations == 3
NumYears == 2
MaxItems == 2
MaxRows == 3
MaxEntries == 3
MaxPassword == 3
MaxEffects == 3
NumEnquiries == 15

\* Invocation slots: at most two invocations of a handler are in flight.
Slots == {1, 2}

(***************************************************************************)
(* Date: the calendar fields of a JS Date in local time.  month is         *)
(* 0-indexed as in JS; ms is the time of day in milliseconds.              *)
(***************************************************************************)
D(y, m, d) == [year |-> y, month |-> m, date |-> d, ms |-> 0]

IsLeapYear(y) == (y % 4 = 0) /\ ((y % 100 # 0) \/ (y % 400 = 0))

DaysInMonth(y, m) ==
    IF m = 1 THEN (IF IsLeapYear(y) THEN 29 ELSE 28)
    ELSE IF m \in {3, 5, 8, 10} THEN 30 ELSE 31

RECURSIVE DaysBeforeMonth(_, _)
DaysBeforeMonth(y, m) ==
    IF m = 0 THEN 0 ELSE DaysBeforeMonth(y, m - 1) + DaysInMonth(y, m - 1)

\* Leap years before year y, and the days from 1 January 1970 to 1 January y.
LeapsBefore(y) == ((y - 1) \div 4) - ((y - 1) \div 100) + ((y - 1) \div 400)
DaysBeforeYear(y) == 365 * (y - 1970) + LeapsBefore(y) - LeapsBefore(1970)

\* Days since 1 January 1970 of a calendar date.
DayNumber(dt) ==
    DaysBeforeYear(dt.year) + DaysBeforeMonth(dt.year, dt.month) + dt.date - 1

\* Date.prototype.getDay: 0 = Sunday .. 6 = Saturday (1 Jan 1970: Thursday).
getDay(dt) == (DayNumber(dt) + 4) % 7

\* Date.prototype.setDate(n): n outside 1..DaysInMonth rolls over into the
\* neighbouring months, one month at a time.
RECURSIVE setDate(_, _)
setDate(dt, n) ==
    IF n < 1 THEN
        LET py == IF dt.month = 0 THEN dt.year - 1 ELSE dt.year
            pm == IF dt.month = 0 THEN 11 ELSE dt.month - 1
        IN setDate([dt EXCEPT !.year = py, !.month = pm], n + DaysInMonth(py, pm))
    ELSE IF n > DaysInMonth(dt.year, dt.month) THEN
        LET ny == IF dt.month = 11 THEN dt.year + 1 ELSE dt.year
            nm == IF dt.month = 11 THEN 0 ELSE dt.month + 1
        IN setDate([dt EXCEPT !.year = ny, !.month = nm],
                   n - DaysInMonth(dt.year, dt.month))
    ELSE [dt EXCEPT !.date = n]

\* Date.prototype.setHours(h, m, s, ms), all arguments given in ms of day.
setHours(dt, msOfDay) == [dt EXCEPT !.ms = msOfDay]

\* formatDate: "YYYY-MM-DD", the month 1-based, month and day two digits.
TwoDigits(n) == <<(n \div 10) % 10, n % 10>>
formatDate(dt) ==
    [year |-> dt.year, month |-> TwoDigits(dt.month + 1), day |-> TwoDigits(dt.date)]

(***************************************************************************)
(* String helpers on sequences of characters.                              *)
(***************************************************************************)
UpperCase ==
    [c \in {"a", "b", "c", "d", "e", "f", "g", "h", "i", "j", "k", "l", "m",
             "n", "o", "p", "q", "r", "s", "t", "u", "v", "w", "x", "y",
             "z"} |->
        CASE c = "a" -> "A" [] c = "b" -> "B" [] c = "c" -> "C"
          [] c = "d" -> "D" [] c = "e" -> "E" [] c = "f" -> "F"
          [] c = "g" -> "G" [] c = "h" -> "H" [] c = "i" -> "I"
          [] c = "j" -> "J" [] c = "k" -> "K" [] c = "l" -> "L"
          [] c = "m" -> "M" [] c = "n" -> "N" [] c = "o" -> "O"
          [] c = "p" -> "P" [] c = "q" -> "Q" [] c = "r" -> "R"
          [] c = "s" -> "S" [] c = "t" -> "T" [] c = "u" -> "U"
          [] c = "v" -> "V" [] c = "w" -> "W" [] c = "x" -> "X"
          [] c = "y" -> "Y" [] c = "z" -> "Z"]

toLowerCaseChar(c) ==
    IF \E l \in DOMAIN UpperCase : UpperCase[l] = c
    THEN CHOOSE l \in DOMAIN UpperCase : UpperCase[l] = c
    ELSE c

toLowerCase(s) == [i \in 1..Len(s) |-> toLowerCaseChar(s[i])]

WhiteSpace == {" ", "\t"}

RECURSIVE trimStart(_)
trimStart(s) ==
    IF s # <<>> /\ Head(s) \in WhiteSpace THEN trimStart(Tail(s)) ELSE s

RECURSIVE trimEnd(_)
trimEnd(s) ==
    IF s # <<>> /\ s[Len(s)] \in WhiteSpace
    THEN trimEnd(SubSeq(s, 1, Len(s) - 1)) ELSE s

trim(s) == trimEnd(trimStart(s))

\* String.prototype.split(','): the comma-free pieces, in order ("" -> [""]).
RECURSIVE split(_)
split(s) ==
    IF s = <<>> THEN << <<>> >>
    ELSE LET rest == split(Tail(s))
         IN IF Head(s) = "," THEN << <<>> >> \o rest
            ELSE << <<Head(s)>> \o Head(rest) >> \o Tail(rest)

\* Array.prototype.includes
includes(list, x) == \E i \in 1..Len(list) : list[i] = x

Construction == <<"c", "o", "n", "s", "t", "r", "u", "c", "t", "i", "o", "n">>


(***************************************************************************)
(* getAnnualLeave.ts                                                       *)
(***************************************************************************)
VARIABLES
    today,              \* the process clock (new Date()), a Date
    teamTable,          \* rows of [dbo].[team] in helix-core-data
    leaveTable,         \* rows of [dbo].[annualLeave] in helix-project-data
    cachedAnnualLeave,  \* module variables of getAnnualLeave.ts
    cachedFutureLeave,
    cachedUserDetails,
    cachedTeamAowMap,
    cachedErrors,       \* cachedAnnualLeaveError, cachedFutureLeaveError,
                        \* cachedUserDetailsError, cachedTeamAowError
    pc,                 \* per slot: where the invocation is suspended
    req,                \* per slot: the HttpRequest
    userInitials,       \* per slot: locals of getAnnualLeaveHandler
    teamAowMap,
    annualLeaveEntries,
    futureLeaveEntries,
    userDetails,
    queries,            \* per slot: state of the promise of each call
    calls,              \* per slot: number of Key Vault / SQL calls issued
    resp,               \* per slot: the HttpResponseInit returned
    started             \* invocations started so far

leaveVars == <<today, teamTable, leaveTable, cachedAnnualLeave, cachedFutureLeave,
               cachedUserDetails, cachedTeamAowMap, cachedErrors, pc, req,
               userInitials, teamAowMap, annualLeaveEntries, futureLeaveEntries,
               userDetails, queries, calls, resp, started>>

cacheVars == <<cachedAnnualLeave, cachedFutureLeave, cachedUserDetails,
               cachedTeamAowMap>>

\* getAttendance.ts: one invocation of getAttendanceHandler and its locals.
VARIABLES
    attPc,              \* where the invocation is suspended
    attClock,           \* the instant new Date() returned
    todayDate,          \* the Date object todayDate
    currentWeekStart,
    currentWeekEnd,
    nextWeekStart,
    nextWeekEnd,
    previousWeekStart,
    previousWeekEnd,
    attendees,
    attCalls,           \* the Key Vault / SQL calls issued, in order
    attResp             \* the HttpResponseInit returned

attVars == <<attPc, attClock, todayDate, currentWeekStart, currentWeekEnd,
             nextWeekStart, nextWeekEnd, previousWeekStart, previousWeekEnd,
             attendees, attCalls, attResp>>

\* Results of the helpers applied on their own to drawn inputs.
VARIABLES
    userLeave,          \* queryUserAnnualLeave: initials, fiscal bounds, rows
    aowItems,           \* the items the AOW of the team row was written from
    routed              \* enhanceLeaveWithAOWAndApprover of one entry

helperVars == <<userLeave, aowItems, routed>>

\* The request of queryAttendance, event by event.
VARIABLES
    rowPc,              \* "idle", "rows", "completed", "thrown"
    rowEvents,          \* the rows emitted so far
    attendanceMap,      \* own properties of the attendanceMap object
    results             \* what the promise resolved with, or Null

rowVars == <<rowPc, rowEvents, attendanceMap, results>>

RowsIdle ==
    /\ rowPc = "idle"
    /\ rowEvents = <<>>
    /\ attendanceMap = <<>>
    /\ results = <<>>

\* Step 1 and step 2 of the two handlers: the secret, and the configurations.
VARIABLES
    cfgPc,              \* "idle", "secret"
    secretValue,        \* passwordSecret.value: Null when undefined
    leaveConfigs,       \* configProjectData, configCoreData of getAnnualLeave
    attConfigs          \* projectDataConfig, coreDataConfig of getAttendance

cfgVars == <<cfgPc, secretValue, leaveConfigs, attConfigs>>

ConfigsIdle ==
    /\ cfgPc = "idle"
    /\ secretValue = Null
    /\ leaveConfigs = Null
    /\ attConfigs = Null

\* The App component: its props, its state, its last render and the last
\* event it saw.
VARIABLES
    teamsContext,       \* prop: Null or the Teams context (its theme)
    userData,           \* prop: Null or the user rows
    enquiries,          \* prop: Null or the enquiries
    matters,            \* prop: Null or the matters
    activeTab,          \* useState('home')
    rendered,           \* what the last render returned
    appEvent            \* the last event: mount, new props, or a link click

appVars == <<teamsContext, userData, enquiries, matters, activeTab, rendered, appEvent>>

AppIdle ==
    /\ teamsContext = Null
    /\ userData = Null
    /\ enquiries = Null
    /\ matters = Null
    /\ activeTab = "home"
    /\ rendered = [loading |-> TRUE]
    /\ appEvent = [kind |-> "mount"]

\* The Enquiries component: its props, its state, and the update-rating
\* request in flight.
VARIABLES
    context,            \* prop: the Teams context (its userPrincipalName)
    poidData,           \* prop: Null until the POID fetch has answered
    localEnquiries,
    searchTerm,
    currentPage,
    isRateModalOpen,
    currentRating,
    ratingEnquiryId,
    isSuccessVisible,
    activeMainTab,
    convertedEnquiriesList,
    convertedPoidDataList,
    selectedArea,
    currentSliderStart,
    currentSliderEnd,
    ratingRequest,      \* the body of the update-rating request awaited, or Null
    ratingOutcome       \* how the last update-rating request ended

filterVars == <<searchTerm, currentPage, activeMainTab, selectedArea,
                currentSliderStart, currentSliderEnd>>
ratingVars == <<isRateModalOpen, currentRating, ratingEnquiryId, isSuccessVisible,
                ratingRequest, ratingOutcome>>
dataVars == <<context, poidData, localEnquiries, convertedEnquiriesList,
              convertedPoidDataList>>
enqVars == <<filterVars, ratingVars, dataVars>>

EnquiriesIdle ==
    /\ context = Null
    /\ poidData = Null
    /\ localEnquiries = <<>>
    /\ searchTerm = <<>>
    /\ currentPage = 1
    /\ isRateModalOpen = FALSE
    /\ currentRating = ""
    /\ ratingEnquiryId = Null
    /\ isSuccessVisible = FALSE
    /\ activeMainTab = ""
    /\ convertedEnquiriesList = <<>>
    /\ convertedPoidDataList = <<>>
    /\ selectedArea = Null
    /\ currentSliderStart = 0
    /\ currentSliderEnd = 0
    /\ ratingRequest = Null
    /\ ratingOutcome = "none"

\* The Home component (Home.tsx): the module variables of its cache, the
\* state of the mounted instance, and the runs of fetchData in flight.
VARIABLES
    cachedAttendance,
    cachedAttendanceError,
    cachedTeamData,
    homeCachedAnnualLeave,  \* cachedAnnualLeave of Home.tsx
    cachedAnnualLeaveError,
    homeMounted,            \* Home is rendered
    homeInstance,           \* the number of the instance mounted last
    homeInitials,           \* prop: userData[0]?.Initials || ''
    attendanceRecords,
    teamData,
    attendanceError,
    annualLeaveRecords,
    annualLeaveError,
    futureLeaveRecords,
    isLoadingAttendance,
    isLoadingAnnualLeave,
    isActionsLoading,
    fetches,                \* the runs of fetchData, each at its await
    effectsRun              \* how often the effect on [userData] has run

homeCacheVars == <<cachedAttendance, cachedAttendanceError, cachedTeamData,
                   homeCachedAnnualLeave, cachedAnnualLeaveError>>
homeStateVars == <<attendanceRecords, teamData, attendanceError, annualLeaveRecords,
                   annualLeaveError, futureLeaveRecords, isLoadingAttendance,
                   isLoadingAnnualLeave, isActionsLoading>>
homeVars == <<homeCacheVars, homeStateVars, homeMounted, homeInstance, homeInitials,
              fetches, effectsRun>>

\* The useState values of a Home instance.
HomeStateDefaults ==
    /\ attendanceRecords = Some(<<>>)
    /\ teamData = Some(<<>>)
    /\ attendanceError = Null
    /\ annualLeaveRecords = <<>>
    /\ annualLeaveError = Null
    /\ futureLeaveRecords = <<>>
    /\ isLoadingAttendance = FALSE
    /\ isLoadingAnnualLeave = FALSE
    /\ isActionsLoading = TRUE

HomeUnloaded ==
    /\ cachedAttendance = Null
    /\ cachedAttendanceError = Null
    /\ cachedTeamData = Null
    /\ homeCachedAnnualLeave = Null
    /\ cachedAnnualLeaveError = Null
    /\ homeMounted = FALSE
    /\ homeInstance = 0
    /\ HomeStateDefaults
    /\ fetches = <<>>
    /\ effectsRun = 0

HomeIdle == HomeUnloaded /\ homeInitials = ""

\* The units modelled on their own, and their state before they run.
unitVars == <<rowVars, cfgVars, appVars, enqVars, homeVars>>
UnitsIdle == RowsIdle /\ ConfigsIdle /\ AppIdle /\ EnquiriesIdle /\ HomeIdle

\* What the actions of getAnnualLeaveHandler leave alone.
outsideLeave == <<attVars, helperVars, unitVars>>

\* ---- request bodies -----------------------------------------------------
\* JSON.parse on the texts the model sends.  ok = FALSE: a SyntaxError.
JsonObject(initials) == [type |-> "object", initials |-> initials]
JsonNull == [type |-> "null", initials |-> Null]
JsonNumber == [type |-> "number", initials |-> Null]

JsonParse(text) ==
    CASE text = "null" -> [ok |-> TRUE, value |-> JsonNull]
      [] text = "5" -> [ok |-> TRUE, value |-> JsonNumber]
      [] text = "{}" -> [ok |-> TRUE, value |-> JsonObject(Null)]
      [] text = "{\"initials\":\"\"}" -> [ok |-> TRUE, value |-> JsonObject(Some(""))]
      [] text = "{\"initials\":\"AB\"}" -> [ok |-> TRUE, value |-> JsonObject(Some("AB"))]
      [] text = "{\"initials\":\"CD\"}" -> [ok |-> TRUE, value |-> JsonObject(Some("CD"))]
      [] OTHER -> [ok |-> FALSE, value |-> JsonNull]

\* req.body: an already parsed object, a string, a ReadableStream of text
\* chunks, or absent (null).
ObjectBody(initials) == [kind |-> "object", value |-> JsonObject(initials), text |-> ""]
StringBody(t) == [kind |-> "string", value |-> JsonNull, text |-> t]
StreamBody(t) == [kind |-> "stream", value |-> JsonNull, text |-> t]
AbsentBody == [kind |-> "absent", value |-> JsonNull, text |-> ""]

Requests ==
    { ObjectBody(Some("AB")), StreamBody("{\"initials\":\"CD\"}"),
      StringBody("{bad"), StringBody("{\"initials\":\"\"}"), StreamBody("null"),
      AbsentBody }

\* getRequestBody: the parsed body, or ok = FALSE when it throws.
getRequestBody(r) ==
    CASE r.kind = "object" -> [ok |-> TRUE, value |-> r.value]
      [] r.kind = "string" -> JsonParse(r.text)
      [] r.kind = "stream" -> JsonParse(r.text)
      [] OTHER -> [ok |-> TRUE, value |-> JsonObject(Null)]

\* body.initials: a TypeError on null, undefined on a value without the field.
ThrowsOnInitials(body) == body.type = "null"
\* JS truthiness of a string | undefined
TruthyStr(o) == o # Null /\ Get(o) # ""
TruthyText(o) == o # Null /\ Get(o) # <<>>
StrOr(o, dflt) == IF TruthyStr(o) THEN Get(o) ELSE dflt

\* ---- tables ---------------------------------------------------------------
LeaveRow(id, fe, sd, ed, status, days, type, notes) ==
    [request_id |-> id, fe |-> fe, start_date |-> sd, end_date |-> ed,
     reason |-> Some("holiday"), status |-> status, days_taken |-> days,
     leave_type |-> type, rejection_notes |-> notes]

SampleLeave ==
    << LeaveRow(1, Some("AB"), D(2025, 2, 28), D(2025, 3, 2), Some("Booked"), Some(4),
                Some("Standard"), Null),
       LeaveRow(2, Some("CD"), D(2025, 3, 1), D(2025, 3, 3), Some("requested"), Some(3),
                Some("standard"), Null),
       LeaveRow(3, Some("CD"), D(2024, 3, 1), D(2024, 3, 1), Some("rejected"), Some(1),
                Some("unpaid"), Some("no cover")),
       LeaveRow(4, Some("EF"), D(2025, 4, 6), D(2025, 4, 7), Some("approved"), Null,
                Null, Null) >>


TeamRow(initials, aow) == [Initials |-> initials, AOW |-> aow]

SampleTeam ==
    << TeamRow(Some("AB"), Some(<<"C">> \o Tail(Construction) \o <<",", " ", "p">>)),
       TeamRow(Some("CD"), Null),
       TeamRow(Null, Some(Construction)) >>

\* The databases the model starts from: both tables empty, or the samples.
Databases == { [team |-> <<>>, leave |-> <<>>], [team |-> SampleTeam, leave |-> SampleLeave] }

Clock == { D(2025, 2, 31) }


\* ---- SQL query functions ------------------------------------------------
\* The AnnualLeaveRecord pushed for one row by the "row" handlers.
recordOfRow(row) ==
    [request_id |-> row.request_id,
     person |-> StrOr(row.fe, ""),
     start_date |-> formatDate(row.start_date),
     end_date |-> formatDate(row.end_date),
     reason |-> StrOr(row.reason, ""),
     status |-> StrOr(row.status, ""),
     days_taken |-> IF row.days_taken = Null THEN 0 ELSE Get(row.days_taken),
     leave_type |-> IF TruthyStr(row.leave_type) THEN row.leave_type ELSE Null,
     rejection_notes |-> IF TruthyStr(row.rejection_notes) THEN row.rejection_notes
                         ELSE Null]

recordsOf(rows) == [i \in 1..Len(rows) |-> recordOfRow(rows[i])]

\* queryTeamDataFromSQL: the Map from Initials to AOW; a later row of the
\* same initials replaces the earlier one, rows without initials are skipped.
RECURSIVE queryTeamDataFromSQL(_)
queryTeamDataFromSQL(rows) ==
    IF rows = <<>> THEN [k \in {} |-> Null]
    ELSE LET before == queryTeamDataFromSQL(SubSeq(rows, 1, Len(rows) - 1))
             row == rows[Len(rows)]
         IN IF TruthyStr(row.Initials)
            THEN [k \in DOMAIN before \cup {Get(row.Initials)} |->
                    IF k = Get(row.Initials)
                    THEN (IF row.AOW # Null /\ Get(row.AOW) # <<>> THEN row.AOW ELSE Null)
                    ELSE before[k]]
            ELSE before

\* Map.prototype.get; undefined and null are both Null here.
MapGet(m, k) == IF k \in DOMAIN m THEN m[k] ELSE Null

\* WHERE @Today BETWEEN [start_date] AND [end_date]
queryAnnualLeave(rows, now) ==
    LET Active(row) == /\ DayNumber(row.start_date) <= DayNumber(now)
                       /\ DayNumber(now) <= DayNumber(row.end_date)
    IN recordsOf(SelectSeq(rows, Active))

\* WHERE [start_date] >= @Today
queryFutureLeave(rows, now) ==
    LET Future(row) == DayNumber(row.start_date) >= DayNumber(now)
    IN recordsOf(SelectSeq(rows, Future))

\* The fiscal year (1 April - 31 March) that queryUserAnnualLeave computes.
FiscalAprilBug(now) ==
    IF now.month <= 3
    THEN [fiscalStart |-> D(now.year - 1, 3, 1), fiscalEnd |-> D(now.year, 2, 31)]
    ELSE [fiscalStart |-> D(now.year, 3, 1), fiscalEnd |-> D(now.year + 1, 2, 31)]

fiscalYear(now) ==
    IF now.month < 3
    THEN [fiscalStart |-> D(now.year - 1, 3, 1), fiscalEnd |-> D(now.year, 2, 31)]
    ELSE [fiscalStart |-> D(now.year, 3, 1), fiscalEnd |-> D(now.year + 1, 2, 31)]

\* WHERE [fe] = @Initials AND [start_date] >= @FiscalStart
\*                        AND [start_date] <= @FiscalEnd
selectUserLeave(rows, initials, now) ==
    LET fy == fiscalYear(now)
        Mine(row) == /\ row.fe = Some(initials)
                     /\ DayNumber(row.start_date) >= DayNumber(fy.fiscalStart)
                     /\ DayNumber(row.start_date) <= DayNumber(fy.fiscalEnd)
    IN SelectSeq(rows, Mine)

\* String.prototype.toLowerCase on the status and leave_type words.
exactWord(w) == w

lowerWord(w) ==
    CASE w = "Booked" -> "booked" [] w = "BOOKED" -> "booked"
      [] w = "Standard" -> "standard" [] w = "Rejected" -> "rejected"
      [] w = "Unpaid" -> "unpaid" [] w = "Purchase" -> "purchase"
      [] OTHER -> w

\* The totals loop of the "requestCompleted" handler.
RECURSIVE leaveTotals(_)
leaveTotals(entries) ==
    IF entries = <<>> THEN [standard |-> 0, unpaid |-> 0, purchase |-> 0, rejected |-> 0]
    ELSE LET t == leaveTotals(SubSeq(entries, 1, Len(entries) - 1))
             entry == entries[Len(entries)]
         IN IF entry.leave_type = Null THEN t
            ELSE LET lt == lowerWord(Get(entry.leave_type))
                     st == lowerWord(entry.status)
                     n == entry.days_taken
                     rej == IF st = "rejected" /\ entry.rejection_notes # Null
                            THEN n ELSE 0
                 IN [standard |-> t.standard + (IF lt = "standard" /\ st = "booked" THEN n ELSE 0),
                     unpaid |-> t.unpaid + (IF lt = "unpaid" THEN n ELSE 0),
                     purchase |-> t.purchase + (IF lt = "purchase" THEN n ELSE 0),
                     rejected |-> t.rejected + rej]

\* queryUserAnnualLeave: the UserDetails it resolves with; the AOW of the
\* totals is read from the module variable cachedTeamAowMap at that moment.
queryUserAnnualLeave(rows, initials, now, cachedMap) ==
    LET leaveEntries == recordsOf(selectUserLeave(rows, initials, now))
        t == leaveTotals(leaveEntries)
        aow == IF cachedMap = Null THEN Null ELSE MapGet(Get(cachedMap), initials)
    IN [leaveEntries |-> leaveEntries,
        totals |-> [standard |-> t.standard, unpaid |-> t.unpaid,
                    purchase |-> t.purchase, rejected |-> t.rejected,
                    AOW |-> IF aow # Null /\ Get(aow) # <<>> THEN aow ELSE Null]]

\* ---- approval routing -----------------------------------------------------
ApproversNoTrim(aow) ==
    LET aowList == split(toLowerCase(aow))
    IN <<"LZ", IF includes(aowList, Construction) THEN "JW" ELSE "AC">>

determineApprovers(aow) ==
    LET lowered == split(toLowerCase(aow))
        aowList == [i \in 1..Len(lowered) |-> trim(lowered[i])]
    IN <<"LZ", IF includes(aowList, Construction) THEN "JW" ELSE "AC">>

\* teamAowMap.get(person) || null   and   teamAowMap.get(person) || ""
AowOrNull(map, person) ==
    LET v == MapGet(map, person) IN IF v # Null /\ Get(v) # <<>> THEN v ELSE Null
AowOrEmpty(map, person) ==
    LET v == MapGet(map, person) IN IF v # Null THEN Get(v) ELSE <<>>

enhanceLeaveWithAOWAndApprover(leaveEntries, map) ==
    [i \in 1..Len(leaveEntries) |->
        LET entry == leaveEntries[i]
        IN [request_id |-> entry.request_id, person |-> entry.person,
            start_date |-> entry.start_date, end_date |-> entry.end_date,
            reason |-> entry.reason, status |-> entry.status,
            days_taken |-> entry.days_taken, leave_type |-> entry.leave_type,
            rejection_notes |-> entry.rejection_notes,
            AOW |-> AowOrNull(map, entry.person),
            approvers |-> determineApprovers(AowOrEmpty(map, entry.person))]]

\* Step 6: user_details with the AOW of the local teamAowMap.
enhanceUserDetails(details, map, initials) ==
    [leaveEntries |-> details.leaveEntries,
     totals |-> [details.totals EXCEPT !.AOW = AowOrNull(map, initials)]]


\* ---- getAnnualLeaveHandler ------------------------------------------------
NoCalls == [kv |-> 0, team |-> 0, annual |-> 0, future |-> 0, user |-> 0]
NoQueries == [kv |-> "none", team |-> "none", annual |-> "none", future |-> "none", user |-> "none"]
EmptyMap == [k \in {} |-> Null]

TextResponse(status, text) == [status |-> status, text |-> text]
JsonResponse(annual, future, details) ==
    [status |-> 200,
     json |-> [annual_leave |-> annual, future_leave |-> future, user_details |-> details]]

InvalidBody == TextResponse(400, "Invalid request body. Ensure it's valid JSON.")
MissingInitials == TextResponse(400, "Missing 'initials' in request body.")
ProcessingError == TextResponse(500, "An error occurred while processing your request.")

\* The module state of getAnnualLeave.ts after load, no invocation yet.
LeaveInit ==
    /\ cachedAnnualLeave = Null
    /\ cachedFutureLeave = Null
    /\ cachedUserDetails = Null
    /\ cachedTeamAowMap = Null
    /\ cachedErrors = [annualLeave |-> Null, futureLeave |-> Null,
                       userDetails |-> Null, teamAow |-> Null]
    /\ pc = [p \in Slots |-> "idle"]
    /\ req = [p \in Slots |-> AbsentBody]
    /\ userInitials = [p \in Slots |-> ""]
    /\ teamAowMap = [p \in Slots |-> EmptyMap]
    /\ annualLeaveEntries = [p \in Slots |-> Null]
    /\ futureLeaveEntries = [p \in Slots |-> Null]
    /\ userDetails = [p \in Slots |-> Null]
    /\ queries = [p \in Slots |-> NoQueries]
    /\ calls = [p \in Slots |-> NoCalls]
    /\ resp = [p \in Slots |-> Null]
    /\ started = 0

\* No invocation of getAttendanceHandler yet.
AttInit ==
    /\ attPc = "idle"
    /\ attClock = Null
    /\ todayDate = Null
    /\ currentWeekStart = Null
    /\ currentWeekEnd = Null
    /\ nextWeekStart = Null
    /\ nextWeekEnd = Null
    /\ previousWeekStart = Null
    /\ previousWeekEnd = Null
    /\ attendees = Null
    /\ attCalls = <<>>
    /\ attResp = Null

HelperInit ==
    /\ userLeave = Null
    /\ aowItems = <<>>
    /\ routed = Null

Init ==
    /\ today \in Clock
    /\ \E db \in Databases : teamTable = db.team /\ leaveTable = db.leave
    /\ LeaveInit
    /\ AttInit
    /\ HelperInit
    /\ UnitsIdle

\* The host calls the handler with request r; the handler runs up to its
\* first await (of getRequestBody).
Invoke(p, r) ==
    /\ pc[p] \in {"idle", "done", "thrown"}
    /\ \A q \in Slots : q < p => pc[q] \notin {"idle", "done", "thrown"}
    /\ started < MaxInvocations
    /\ started' = started + 1
    /\ pc' = [pc EXCEPT ![p] = "body"]
    /\ req' = [req EXCEPT ![p] = r]
    /\ userInitials' = [userInitials EXCEPT ![p] = ""]
    /\ teamAowMap' = [teamAowMap EXCEPT ![p] = EmptyMap]
    /\ annualLeaveEntries' = [annualLeaveEntries EXCEPT ![p] = Null]
    /\ futureLeaveEntries' = [futureLeaveEntries EXCEPT ![p] = Null]
    /\ userDetails' = [userDetails EXCEPT ![p] = Null]
    /\ queries' = [queries EXCEPT ![p] = NoQueries]
    /\ calls' = [calls EXCEPT ![p] = NoCalls]
    /\ resp' = [resp EXCEPT ![p] = Null]
    /\ UNCHANGED <<today, teamTable, leaveTable, cachedAnnualLeave, cachedFutureLeave,
                   cachedUserDetails, cachedTeamAowMap, cachedErrors>>
    /\ UNCHANGED outsideLeave

\* return { status, body }
Return(p, r) ==
    /\ resp' = [resp EXCEPT ![p] = Some(r)]
    /\ pc' = [pc EXCEPT ![p] = "done"]

\* The cache test: arrays, objects and Maps are truthy even when empty.
IsCachedNonEmpty ==
    /\ cachedAnnualLeave # Null /\ Get(cachedAnnualLeave) # <<>>
    /\ cachedFutureLeave # Null /\ Get(cachedFutureLeave) # <<>>
    /\ cachedUserDetails # Null
    /\ cachedTeamAowMap # Null

IsCached ==
    /\ cachedAnnualLeave # Null
    /\ cachedFutureLeave # Null
    /\ cachedUserDetails # Null
    /\ cachedTeamAowMap # Null

\* After the await of getRequestBody: the body checks, the cache test and,
\* on a miss, the call of secretClient.getSecret.
BodyParsed(p) ==
    /\ pc[p] = "body"
    /\ LET parsed == getRequestBody(req[p])
       IN IF ~parsed.ok THEN
              /\ Return(p, InvalidBody)
              /\ UNCHANGED <<userInitials, calls, queries>>
          ELSE IF ThrowsOnInitials(parsed.value) THEN
              \* TypeError outside any try block: the handler's promise rejects
              /\ pc' = [pc EXCEPT ![p] = "thrown"]
              /\ UNCHANGED <<resp, userInitials, calls, queries>>
          ELSE IF ~TruthyStr(parsed.value.initials) THEN
              /\ Return(p, MissingInitials)
              /\ UNCHANGED <<userInitials, calls, queries>>
          ELSE IF IsCached THEN
              /\ Return(p, JsonResponse(Get(cachedAnnualLeave), Get(cachedFutureLeave),
                                        Get(cachedUserDetails)))
              /\ userInitials' = [userInitials EXCEPT ![p] = Get(parsed.value.initials)]
              /\ UNCHANGED <<calls, queries>>
          ELSE
              /\ pc' = [pc EXCEPT ![p] = "kv"]
              /\ userInitials' = [userInitials EXCEPT ![p] = Get(parsed.value.initials)]
              /\ calls' = [calls EXCEPT ![p].kv = @ + 1]
              /\ queries' = [queries EXCEPT ![p].kv = "pending"]
              /\ UNCHANGED resp
    /\ UNCHANGED <<today, teamTable, leaveTable, cachedAnnualLeave, cachedFutureLeave,
                   cachedUserDetails, cachedTeamAowMap, cachedErrors, req, teamAowMap,
                   annualLeaveEntries, futureLeaveEntries, userDetails, started>>
    /\ UNCHANGED outsideLeave

\* getSecret settles.  On success: the connection strings, then the team
\* query unless the team map is cached, in which case Promise.all starts
\* the three leave queries together.
SecretRetrieved(p, ok) ==
    /\ pc[p] = "kv"
    /\ IF ~ok THEN
           /\ Return(p, ProcessingError)
           /\ queries' = [queries EXCEPT ![p].kv = "fail"]
           /\ UNCHANGED <<teamAowMap, calls>>
       ELSE IF cachedTeamAowMap # Null THEN
           /\ teamAowMap' = [teamAowMap EXCEPT ![p] = Get(cachedTeamAowMap)]
           /\ queries' = [queries EXCEPT ![p].kv = "ok", ![p].annual = "pending",
                                         ![p].future = "pending", ![p].user = "pending"]
           /\ calls' = [calls EXCEPT ![p].annual = @ + 1, ![p].future = @ + 1,
                                     ![p].user = @ + 1]
           /\ pc' = [pc EXCEPT ![p] = "leave"]
           /\ UNCHANGED resp
       ELSE
           /\ queries' = [queries EXCEPT ![p].kv = "ok", ![p].team = "pending"]
           /\ calls' = [calls EXCEPT ![p].team = @ + 1]
           /\ pc' = [pc EXCEPT ![p] = "team"]
           /\ UNCHANGED <<resp, teamAowMap>>
    /\ UNCHANGED <<today, teamTable, leaveTable, cachedAnnualLeave, cachedFutureLeave,
                   cachedUserDetails, cachedTeamAowMap, cachedErrors, req, userInitials,
                   annualLeaveEntries, futureLeaveEntries, userDetails, started>>
    /\ UNCHANGED outsideLeave

\* cachedTeamAowMap = teamAowMap: the value the module variable takes once
\* the team query has resolved.
TeamAowMapNotCached(map) == cachedTeamAowMap

cacheTeamAowMap(map) == Some(map)

\* queryTeamDataFromSQL settles.
TeamQueryCompleted(p, ok) ==
    /\ pc[p] = "team"
    /\ IF ~ok THEN
           /\ Return(p, ProcessingError)
           /\ queries' = [queries EXCEPT ![p].team = "fail"]
           /\ UNCHANGED <<teamAowMap, cachedTeamAowMap, calls>>
       ELSE
           /\ teamAowMap' = [teamAowMap EXCEPT ![p] = queryTeamDataFromSQL(teamTable)]
           /\ cachedTeamAowMap' = cacheTeamAowMap(queryTeamDataFromSQL(teamTable))
           /\ queries' = [queries EXCEPT ![p].team = "ok", ![p].annual = "pending",
                                         ![p].future = "pending", ![p].user = "pending"]
           /\ calls' = [calls EXCEPT ![p].annual = @ + 1, ![p].future = @ + 1,
                                     ![p].user = @ + 1]
           /\ pc' = [pc EXCEPT ![p] = "leave"]
           /\ UNCHANGED resp
    /\ UNCHANGED <<today, teamTable, leaveTable, cachedAnnualLeave, cachedFutureLeave,
                   cachedUserDetails, cachedErrors, req, userInitials,
                   annualLeaveEntries, futureLeaveEntries, userDetails, started>>
    /\ UNCHANGED outsideLeave


\* const [annualLeaveEntries, futureLeaveEntries, userDetails] = await ...:
\* the user details the continuation goes on with are those its own query
\* resolved with.
AwaitedUserDetailsOrCached(p, own) ==
    IF cachedUserDetails # Null THEN Get(cachedUserDetails) ELSE own

AwaitedUserDetails(p, own) == own

\* Steps 5 to 8, run when the last of the three queries has resolved:
\* enhance, cache, respond.
Steps5to8(p, annual, future, details) ==
    LET map == teamAowMap[p]
        enhancedAnnualLeave == enhanceLeaveWithAOWAndApprover(annual, map)
        enhancedFutureLeave == enhanceLeaveWithAOWAndApprover(future, map)
        enhancedUserDetails ==
            enhanceUserDetails(AwaitedUserDetails(p, details), map, userInitials[p])
    IN /\ cachedAnnualLeave' = Some(enhancedAnnualLeave)
       /\ cachedFutureLeave' = Some(enhancedFutureLeave)
       /\ cachedUserDetails' = Some(enhancedUserDetails)
       /\ Return(p, JsonResponse(enhancedAnnualLeave, enhancedFutureLeave,
                                 enhancedUserDetails))

\* The catch block, entered when Promise.all rejects (at the first query
\* that fails; the results of the others are dropped).
catchLeaveErrorKeepingPartial(p) ==
    /\ Return(p, ProcessingError)
    /\ cachedAnnualLeave' = IF annualLeaveEntries[p] # Null
                            THEN Some(enhanceLeaveWithAOWAndApprover(
                                        Get(annualLeaveEntries[p]), teamAowMap[p]))
                            ELSE cachedAnnualLeave
    /\ UNCHANGED <<cachedFutureLeave, cachedUserDetails>>

catchLeaveError(p) ==
    /\ Return(p, ProcessingError)
    /\ UNCHANGED <<cachedAnnualLeave, cachedFutureLeave, cachedUserDetails>>

StillAwaiting == UNCHANGED <<pc, resp, cachedAnnualLeave, cachedFutureLeave, cachedUserDetails>>

\* queryAnnualLeave settles.
AnnualLeaveCompleted(p, ok) ==
    /\ pc[p] = "leave"
    /\ queries[p].annual = "pending"
    /\ IF ~ok THEN
           /\ queries' = [queries EXCEPT ![p].annual = "fail"]
           /\ catchLeaveError(p)
           /\ UNCHANGED annualLeaveEntries
       ELSE
           /\ queries' = [queries EXCEPT ![p].annual = "ok"]
           /\ annualLeaveEntries' =
                [annualLeaveEntries EXCEPT ![p] = Some(queryAnnualLeave(leaveTable, today))]
           /\ IF queries[p].future = "ok" /\ queries[p].user = "ok"
              THEN Steps5to8(p, queryAnnualLeave(leaveTable, today),
                             Get(futureLeaveEntries[p]), Get(userDetails[p]))
              ELSE StillAwaiting
    /\ UNCHANGED <<today, teamTable, leaveTable, cachedTeamAowMap, cachedErrors, req,
                   userInitials, teamAowMap, futureLeaveEntries, userDetails, calls,
                   started>>
    /\ UNCHANGED outsideLeave

\* queryFutureLeave settles.
FutureLeaveCompleted(p, ok) ==
    /\ pc[p] = "leave"
    /\ queries[p].future = "pending"
    /\ IF ~ok THEN
           /\ queries' = [queries EXCEPT ![p].future = "fail"]
           /\ catchLeaveError(p)
           /\ UNCHANGED futureLeaveEntries
       ELSE
           /\ queries' = [queries EXCEPT ![p].future = "ok"]
           /\ futureLeaveEntries' =
                [futureLeaveEntries EXCEPT ![p] = Some(queryFutureLeave(leaveTable, today))]
           /\ IF queries[p].annual = "ok" /\ queries[p].user = "ok"
              THEN Steps5to8(p, Get(annualLeaveEntries[p]),
                             queryFutureLeave(leaveTable, today), Get(userDetails[p]))
              ELSE StillAwaiting
    /\ UNCHANGED <<today, teamTable, leaveTable, cachedTeamAowMap, cachedErrors, req,
                   userInitials, teamAowMap, annualLeaveEntries, userDetails, calls,
                   started>>
    /\ UNCHANGED outsideLeave

\* queryUserAnnualLeave settles.
UserLeaveCompleted(p, ok) ==
    /\ pc[p] = "leave"
    /\ queries[p].user = "pending"
    /\ IF ~ok THEN
           /\ queries' = [queries EXCEPT ![p].user = "fail"]
           /\ catchLeaveError(p)
           /\ UNCHANGED userDetails
       ELSE
           LET own == queryUserAnnualLeave(leaveTable, userInitials[p], today,
                                           cachedTeamAowMap)
           IN /\ queries' = [queries EXCEPT ![p].user = "ok"]
              /\ userDetails' = [userDetails EXCEPT ![p] = Some(own)]
              /\ IF queries[p].annual = "ok" /\ queries[p].future = "ok"
                 THEN Steps5to8(p, Get(annualLeaveEntries[p]),
                                Get(futureLeaveEntries[p]), own)
                 ELSE StillAwaiting
    /\ UNCHANGED <<today, teamTable, leaveTable, cachedTeamAowMap, cachedErrors, req,
                   userInitials, teamAowMap, annualLeaveEntries, futureLeaveEntries,
                   calls, started>>
    /\ UNCHANGED outsideLeave

vars == <<leaveVars, attVars, helperVars, unitVars>>

Next ==
    \E p \in Slots :
        \/ \E r \in Requests : Invoke(p, r)
        \/ BodyParsed(p)
        \/ \E ok \in BOOLEAN : SecretRetrieved(p, ok)
        \/ \E ok \in BOOLEAN : TeamQueryCompleted(p, ok)
        \/ \E ok \in BOOLEAN : AnnualLeaveCompleted(p, ok)
        \/ \E ok \in BOOLEAN : FutureLeaveCompleted(p, ok)
        \/ \E ok \in BOOLEAN : UserLeaveCompleted(p, ok)

Spec == Init /\ [][Next]_vars


(***************************************************************************)
(* getAttendance.ts                                                        *)
(***************************************************************************)
Years == 2024..(2024 + NumYears - 1)
TimesOfDay == {0, 43200000, 86399999}

\* The instants new Date() may return.
Instants ==
    { [year |-> y, month |-> m, date |-> d, ms |-> t] :
        y \in Years, m \in 0..11, d \in 1..31, t \in TimesOfDay }
    \ { i \in [year : Years, month : 0..11, date : 29..31, ms : TimesOfDay] :
          i.date > DaysInMonth(i.year, i.month) }

\* getStartOfWeek: the argument object after the call, and the Date returned.
getStartOfWeekSundayBug(date) ==
    LET day == getDay(date)
        diff == 1 - day
    IN [date |-> date, start |-> setHours(setDate(date, date.date + diff), 0)]

getStartOfWeek(date) ==
    LET day == getDay(date)
        diff == (IF day = 0 THEN -6 ELSE 1) - day
    IN [date |-> date, start |-> setHours(setDate(date, date.date + diff), 0)]

getNextWeekStart(weekStart) ==
    setHours(setDate(weekStart, weekStart.date + 7), 0)

getEndOfWeekNextMonday(startDate) ==
    setHours(setDate(startDate, startDate.date + 7), 86399999)

getEndOfWeek(startDate) ==
    setHours(setDate(startDate, startDate.date + 6), 86399999)

\* toLocaleDateString("en-GB", 2-digit day, 2-digit month, numeric year)
enGB(dt) == [day |-> TwoDigits(dt.date), month |-> TwoDigits(dt.month + 1), year |-> dt.year]

\* `Monday, ${startStr} - Sunday, ${endStr}`
formatWeekRange(start, end) ==
    [startDay |-> "Monday", start |-> enGB(start), endDay |-> "Sunday", end |-> enGB(end)]

\* ---- attendance and team tables -------------------------------------------
AttendanceRow(name, level, cw, ca, ciso, nw, na, niso) ==
    [name |-> name, Level |-> level, current_week |-> cw, current_attendance |-> ca,
     current_iso |-> ciso, next_week |-> nw, next_attendance |-> na, next_iso |-> niso]

\* Rows of officeAttendance-clioCalendarEntries around the three week ranges.
AttendanceTable(prev, cur, next) ==
    << AttendanceRow(Some("Alex"), Some("Partner"), Some(cur), Some("Mon,Tue"), Some(14),
                     Some(next), Some("Wed"), Some(15)),
       AttendanceRow(Some("Bea"), Some("Solicitor"), Some(prev), Some("Fri"), Some(13),
                     Some(cur), Some("Mon"), Some(14)),
       AttendanceRow(Some("Alex"), Some("Associate"), Some(prev), Some("Thu"), Some(13),
                     Some(cur), Some("Tue"), Some(14)),
       AttendanceRow(Some("Cy"), Null, Some(prev), Some("Mon"), Some(13),
                     Null, Null, Null) >>

\* The order of the names under localeCompare / ORDER BY.
NameOrder == <<"", "Alex", "Bea", "constructor", "Cy">>

\* attendanceMap is a plain object ({}): a lookup of a key it does not own
\* goes on to Object.prototype, whose properties are functions or objects
\* (truthy, and without a weeks property).
ObjectPrototype ==
    {"constructor", "__proto__", "hasOwnProperty", "isPrototypeOf",
     "propertyIsEnumerable", "toLocaleString", "toString", "valueOf",
     "__defineGetter__", "__defineSetter__", "__lookupGetter__", "__lookupSetter__"}

\* The "row" listener: the map after the row, and whether the listener threw
\* (a write to attendanceMap[name].weeks[...] where weeks is undefined).
onRow(map, row) ==
    LET name == StrOr(row.name, "")
        level == StrOr(row.Level, "")
        \* a week column is a week range text or null (null || "" is falsy)
        currentWeek == row.current_week
        nextWeek == row.next_week
        cw == [iso |-> IF row.current_iso = Null THEN 0 ELSE Get(row.current_iso),
               attendance |-> StrOr(row.current_attendance, "")]
        nw == [iso |-> IF row.next_iso = Null THEN 0 ELSE Get(row.next_iso),
               attendance |-> StrOr(row.next_attendance, "")]
        found == name \in DOMAIN map \/ name \in ObjectPrototype
        created == IF found THEN map
                   ELSE [k \in DOMAIN map \cup {name} |->
                           IF k = name
                           THEN [name |-> name, level |-> level, weeks |-> <<>>]
                           ELSE map[k]]
        own == name \in DOMAIN created
        weeks0 == IF own THEN created[name].weeks ELSE <<>>
        w1 == IF currentWeek # Null
              THEN [k \in DOMAIN weeks0 \cup {Get(currentWeek)} |->
                      IF k = Get(currentWeek) THEN cw ELSE weeks0[k]]
              ELSE weeks0
        w2 == IF nextWeek # Null
              THEN [k \in DOMAIN w1 \cup {Get(nextWeek)} |->
                      IF k = Get(nextWeek) THEN nw ELSE w1[k]]
              ELSE w1
    IN IF own
       THEN [map |-> [created EXCEPT ![name].weeks = w2], threw |-> FALSE]
       ELSE [map |-> created, threw |-> currentWeek # Null \/ nextWeek # Null]

RECURSIVE attendanceMapOf(_)
attendanceMapOf(rows) ==
    IF rows = <<>> THEN <<>>
    ELSE onRow(attendanceMapOf(SubSeq(rows, 1, Len(rows) - 1)), rows[Len(rows)]).map

RECURSIVE valuesSortedByName(_, _)
valuesSortedByName(map, i) ==
    IF i > Len(NameOrder) THEN <<>>
    ELSE (IF NameOrder[i] \in DOMAIN map THEN <<map[NameOrder[i]]>> ELSE <<>>)
         \o valuesSortedByName(map, i + 1)

\* queryAttendance: the rows the WHERE clause selects, combined per name.
queryAttendance(prev, cur, next, rows) ==
    LET Selected(row) ==
            \/ row.current_week = Some(cur)
            \/ row.next_week = Some(next)
            \/ (row.next_week = Some(cur) /\ row.current_week = Some(prev))
    IN valuesSortedByName(attendanceMapOf(SelectSeq(rows, Selected)), 1)

AttTeamRow(first, initials, entra, nickname, status) ==
    [First |-> first, Initials |-> initials, EntraID |-> entra, Nickname |-> nickname,
     status |-> status]

AttTeamTable ==
    << AttTeamRow("Alex", "AB", "id-1", Some("Al"), Some("active")),
       AttTeamRow("Bea", "CD", "id-2", Null, Some("inactive")),
       AttTeamRow("Cy", "EF", "id-3", Null, Null) >>

\* queryTeamData: WHERE [status] <> 'inactive' (never true of a NULL status)
queryTeamData(rows) ==
    LET Active(row) == row.status # Null /\ Get(row.status) # "inactive"
        picked == SelectSeq(rows, Active)
    IN [i \in 1..Len(picked) |->
          [First |-> picked[i].First, Initials |-> picked[i].Initials,
           EntraID |-> picked[i].EntraID, Nickname |-> picked[i].Nickname]]


\* ---- getAttendanceHandler -------------------------------------------------
AttendanceError == TextResponse(500, "Error retrieving attendance data.")

\* What the actions of getAttendanceHandler leave alone.
outsideAttendance == <<leaveVars, helperVars, unitVars>>

\* An entry of attCalls: a call being issued, resolving or rejecting.
CallEvent(call, event) == [call |-> call, event |-> event]

WeekRanges ==
    [previous |-> formatWeekRange(previousWeekStart, previousWeekEnd),
     current |-> formatWeekRange(currentWeekStart, currentWeekEnd),
     next |-> formatWeekRange(nextWeekStart, nextWeekEnd)]

\* The host calls the handler; it runs up to the await of getSecret.
AttInvoke ==
    /\ attPc \in {"idle", "done"}
    /\ attPc' = "kv"
    /\ attCalls' = <<CallEvent("kv", "issued")>>
    /\ attClock' = Null
    /\ todayDate' = Null
    /\ currentWeekStart' = Null
    /\ currentWeekEnd' = Null
    /\ nextWeekStart' = Null
    /\ nextWeekEnd' = Null
    /\ previousWeekStart' = Null
    /\ previousWeekEnd' = Null
    /\ attendees' = Null
    /\ attResp' = Null
    /\ UNCHANGED outsideAttendance

\* getSecret settles at instant now.  On success: the connection configs,
\* the three week ranges, and the call of queryAttendance.
AttSecretRetrieved(ok, now) ==
    /\ attPc = "kv"
    /\ IF ~ok THEN
           /\ attPc' = "done"
           /\ attResp' = Some(AttendanceError)
           /\ attCalls' = Append(attCalls, CallEvent("kv", "rejected"))
           /\ UNCHANGED <<attClock, todayDate, currentWeekStart, currentWeekEnd,
                          nextWeekStart, nextWeekEnd, previousWeekStart,
                          previousWeekEnd>>
       ELSE
           LET called == getStartOfWeek(now)
               cws == called.start
               nws == getNextWeekStart(cws)
               pws == setDate(cws, cws.date - 7)
           IN /\ attClock' = now
              /\ todayDate' = called.date
              /\ currentWeekStart' = cws
              /\ currentWeekEnd' = getEndOfWeek(cws)
              /\ nextWeekStart' = nws
              /\ nextWeekEnd' = getEndOfWeek(nws)
              /\ previousWeekStart' = pws
              /\ previousWeekEnd' = getEndOfWeek(pws)
              /\ attCalls' = attCalls \o <<CallEvent("kv", "resolved"),
                                          CallEvent("attendance", "issued")>>
              /\ attPc' = "attendance"
              /\ UNCHANGED attResp
    /\ UNCHANGED attendees
    /\ UNCHANGED outsideAttendance

\* queryAttendance settles; on success queryTeamData is called.
AttendanceQueryCompletedThenTeam(ok) ==
    /\ attPc = "attendance"
    /\ attendees' = IF ok
                    THEN Some(queryAttendance(WeekRanges.previous, WeekRanges.current,
                               WeekRanges.next,
                               AttendanceTable(WeekRanges.previous, WeekRanges.current,
                                               WeekRanges.next)))
                    ELSE Some(<<>>)
    /\ attCalls' = attCalls \o
                     <<CallEvent("attendance", IF ok THEN "resolved" ELSE "rejected"),
                       CallEvent("team", "issued")>>
    /\ attPc' = "team"
    /\ UNCHANGED attResp
    /\ UNCHANGED <<attClock, todayDate, currentWeekStart, currentWeekEnd, nextWeekStart,
                   nextWeekEnd, previousWeekStart, previousWeekEnd>>
    /\ UNCHANGED outsideAttendance

AttendanceQueryCompleted(ok) ==
    /\ attPc = "attendance"
    /\ IF ~ok THEN
           /\ attPc' = "done"
           /\ attResp' = Some(AttendanceError)
           /\ attCalls' = Append(attCalls, CallEvent("attendance", "rejected"))
           /\ UNCHANGED attendees
       ELSE
           /\ attendees' =
                Some(queryAttendance(WeekRanges.previous, WeekRanges.current,
                       WeekRanges.next,
                       AttendanceTable(WeekRanges.previous, WeekRanges.current,
                                       WeekRanges.next)))
           /\ attCalls' = attCalls \o <<CallEvent("attendance", "resolved"),
                                        CallEvent("team", "issued")>>
           /\ attPc' = "team"
           /\ UNCHANGED attResp
    /\ UNCHANGED <<attClock, todayDate, currentWeekStart, currentWeekEnd, nextWeekStart,
                   nextWeekEnd, previousWeekStart, previousWeekEnd>>
    /\ UNCHANGED outsideAttendance

\* queryTeamData settles.
AttTeamQueryCompleted(ok) ==
    /\ attPc = "team"
    /\ attPc' = "done"
    /\ attCalls' = Append(attCalls, CallEvent("team", IF ok THEN "resolved" ELSE "rejected"))
    /\ attResp' = IF ok
                  THEN Some([status |-> 200,
                             json |-> [attendance |-> Get(attendees),
                                       team |-> queryTeamData(AttTeamTable)]])
                  ELSE Some(AttendanceError)
    /\ UNCHANGED <<attClock, todayDate, currentWeekStart, currentWeekEnd, nextWeekStart,
                   nextWeekEnd, previousWeekStart, previousWeekEnd, attendees>>
    /\ UNCHANGED outsideAttendance

NextAttendance ==
    \/ AttInvoke
    \/ \E ok \in BOOLEAN, now \in Instants : AttSecretRetrieved(ok, now)
    \/ \E ok \in BOOLEAN : AttendanceQueryCompleted(ok)
    \/ \E ok \in BOOLEAN : AttTeamQueryCompleted(ok)

\* getAttendanceHandler alone; the module state of getAnnualLeave.ts idle.
InitAttendance ==
    /\ today \in Clock
    /\ teamTable = <<>>
    /\ leaveTable = <<>>
    /\ LeaveInit
    /\ AttInit
    /\ HelperInit
    /\ UnitsIdle

SpecAttendance == InitAttendance /\ [][NextAttendance]_vars

\* ---- claims on getAttendanceHandler -----------------------------------------
Logged(call, event) == \E i \in 1..Len(attCalls) : attCalls[i] = CallEvent(call, event)
Position(call, event) == CHOOSE i \in 1..Len(attCalls) : attCalls[i] = CallEvent(call, event)

\* C5: getAttendanceHandler answers 200 with a JSON body of exactly the keys
\* attendance and team if and only if the Key Vault lookup, the attendance
\* query and the team query all succeed, and otherwise 500 with the text
\* 'Error retrieving attendance data.'; the team query is issued only after
\* the attendance query has resolved, never when it was rejected.
C5_AttendanceStatus ==
    /\ attPc = "done" =>
         /\ attResp # Null
         /\ IF /\ Logged("kv", "resolved")
               /\ Logged("attendance", "resolved")
               /\ Logged("team", "resolved")
            THEN /\ Get(attResp).status = 200
                 /\ DOMAIN Get(attResp) = {"status", "json"}
                 /\ DOMAIN Get(attResp).json = {"attendance", "team"}
            ELSE /\ Get(attResp) = AttendanceError
                 /\ \/ Logged("kv", "rejected")
                    \/ Logged("attendance", "rejected")
                    \/ Logged("team", "rejected")
    /\ Logged("team", "issued") =>
         /\ Logged("attendance", "resolved")
         /\ Position("attendance", "issued") < Position("team", "issued")
         /\ Position("attendance", "resolved") < Position("team", "issued")
    /\ Logged("attendance", "rejected") => ~Logged("team", "issued")
    /\ Logged("kv", "rejected") => ~Logged("attendance", "issued")

\* C5 witness: a 200 answer, all three calls having resolved in order.
C5_Witness ==
    /\ attPc = "done"
    /\ Get(attResp).status = 200
    /\ Len(Get(attResp).json.attendance) > 0
    /\ Logged("team", "resolved")

\* C7: getStartOfWeek(d) is the Monday 00:00:00.000 of the week of d: its
\* weekday is Monday, it is not after d and at most 6 calendar days before
\* d, also when d is a Sunday; the Date passed in is left as it was.
C7_StartOfWeekIsMonday ==
    attPc \in {"attendance", "team"} =>
        /\ getDay(currentWeekStart) = 1
        /\ currentWeekStart.ms = 0
        /\ DayNumber(currentWeekStart) <= DayNumber(attClock)
        /\ DayNumber(attClock) - DayNumber(currentWeekStart) <= 6
        /\ currentWeekStart.date \in 1..DaysInMonth(currentWeekStart.year,
                                                    currentWeekStart.month)
        /\ todayDate = attClock

\* C7 witness: the week start of a Sunday afternoon that falls in the first
\* days of a year, so that the Monday lies in the year before.
C7_Witness ==
    /\ attPc = "attendance"
    /\ getDay(attClock) = 0
    /\ attClock.ms > 0
    /\ currentWeekStart.year < attClock.year
    /\ DayNumber(attClock) - DayNumber(currentWeekStart) = 6

\* A week as formatWeekRange is to render it: 'Monday, dd/mm/yyyy - Sunday,
\* dd/mm/yyyy' of two calendar dates.
Before(a, b) ==
    DayNumber(a) < DayNumber(b) \/ (DayNumber(a) = DayNumber(b) /\ a.ms < b.ms)
ddmmyyyy(dt) ==
    [day |-> <<dt.date \div 10, dt.date % 10>>,
     month |-> <<(dt.month + 1) \div 10, (dt.month + 1) % 10>>,
     year |-> dt.year]
MondayToSunday(start, end, text) ==
    /\ getDay(start) = 1 /\ start.ms = 0
    /\ getDay(end) = 0 /\ end.ms = 86399999
    /\ DayNumber(end) = DayNumber(start) + 6
    /\ text = [startDay |-> "Monday", start |-> ddmmyyyy(start),
               endDay |-> "Sunday", end |-> ddmmyyyy(end)]

\* C12: for every invocation date the previous, current and next week
\* ranges are three consecutive, non-overlapping Monday-to-Sunday weeks:
\* the previous week starts 7 days before and the next 7 days after the
\* current week start, each end is the Sunday 6 days after its start, today
\* lies in the current range, and each range is rendered as
\* 'Monday, dd/mm/yyyy - Sunday, dd/mm/yyyy'.
C12_WeekRanges ==
    attPc \in {"attendance", "team"} =>
        /\ DayNumber(previousWeekStart) = DayNumber(currentWeekStart) - 7
        /\ DayNumber(nextWeekStart) = DayNumber(currentWeekStart) + 7
        /\ MondayToSunday(previousWeekStart, previousWeekEnd, WeekRanges.previous)
        /\ MondayToSunday(currentWeekStart, currentWeekEnd, WeekRanges.current)
        /\ MondayToSunday(nextWeekStart, nextWeekEnd, WeekRanges.next)
        /\ Before(previousWeekEnd, currentWeekStart)
        /\ Before(currentWeekEnd, nextWeekStart)
        /\ ~Before(attClock, currentWeekStart)
        /\ ~Before(currentWeekEnd, attClock)
        /\ \A dt \in {previousWeekStart, previousWeekEnd, currentWeekStart,
                       currentWeekEnd, nextWeekStart, nextWeekEnd} :
               dt.month \in 0..11 /\ dt.date \in 1..DaysInMonth(dt.year, dt.month)

\* C12 witness: an invocation in the last millisecond of a Sunday whose
\* current week runs over a month end and whose three weeks run over a
\* year end.
C12_Witness ==
    /\ attPc = "attendance"
    /\ getDay(attClock) = 0
    /\ attClock.ms = 86399999
    /\ previousWeekStart.year < nextWeekEnd.year
    /\ currentWeekStart.month # currentWeekEnd.month


(***************************************************************************)
(* The request of queryAttendance on its own: any sequence of "row" events *)
(* of rows the query selects, then "requestCompleted".                     *)
(***************************************************************************)
PreviousWeekText == formatWeekRange(D(2025, 2, 24), D(2025, 2, 30))
CurrentWeekText == formatWeekRange(D(2025, 2, 31), D(2025, 3, 6))
NextWeekText == formatWeekRange(D(2025, 3, 7), D(2025, 3, 13))

\* Rows of officeAttendance-clioCalendarEntries that satisfy the WHERE
\* clause for the three weeks above.
RowSamples ==
    { AttendanceRow(Some("Alex"), Some("Partner"), Some(CurrentWeekText), Some("Mon"),
                    Some(14), Some(NextWeekText), Some("Wed"), Some(15)),
      AttendanceRow(Some("Alex"), Some("Associate"), Some(PreviousWeekText), Some("Thu"),
                    Some(13), Some(CurrentWeekText), Some("Tue"), Some(14)),
      AttendanceRow(Some("Bea"), Some("Solicitor"), Some(CurrentWeekText), Some("Fri"),
                    Some(14), Some(CurrentWeekText), Some("Mon,Fri"), Some(14)),
      AttendanceRow(Some("Bea"), Null, Null, Null, Null,
                    Some(NextWeekText), Some("Tue"), Some(15)),
      AttendanceRow(Null, Null, Some(CurrentWeekText), Some("Mon"), Some(14),
                    Null, Null, Null),
      AttendanceRow(Some("Cy"), Some("Partner"), Some(CurrentWeekText), Null, Some(14),
                    Null, Null, Null),
      AttendanceRow(Some("constructor"), Some("Partner"), Some(CurrentWeekText),
                    Some("Mon"), Some(14), Some(NextWeekText), Some("Wed"), Some(15)) }

outsideRows == <<leaveVars, attVars, helperVars, cfgVars, appVars, enqVars, homeVars>>

\* connection.execSql(sqlRequest) with a fresh attendanceMap.
ExecSql ==
    /\ rowPc = "idle"
    /\ rowPc' = "rows"
    /\ rowEvents' = <<>>
    /\ attendanceMap' = <<>>
    /\ results' = Null
    /\ UNCHANGED outsideRows

\* A "row" event.  When the listener throws, the error leaves the listener
\* into the driver: the request may go on with its next events or end
\* without settling the promise.
RowEvent(row, goesOn) ==
    /\ rowPc = "rows"
    /\ Len(rowEvents) < MaxRows
    /\ rowEvents' = Append(rowEvents, row)
    /\ attendanceMap' = onRow(attendanceMap, row).map
    /\ rowPc' = IF onRow(attendanceMap, row).threw /\ ~goesOn THEN "thrown" ELSE "rows"
    /\ UNCHANGED results
    /\ UNCHANGED outsideRows

\* The "requestCompleted" event: Object.values, sort by name, resolve.
RequestCompleted ==
    /\ rowPc = "rows"
    /\ rowPc' = "completed"
    /\ results' = Some(valuesSortedByName(attendanceMap, 1))
    /\ UNCHANGED <<rowEvents, attendanceMap>>
    /\ UNCHANGED outsideRows

NextRows ==
    \/ ExecSql
    \/ \E row \in RowSamples, goesOn \in BOOLEAN : RowEvent(row, goesOn)
    \/ RequestCompleted

InitRows ==
    /\ today \in Clock
    /\ teamTable = <<>>
    /\ leaveTable = <<>>
    /\ LeaveInit
    /\ AttInit
    /\ HelperInit
    /\ UnitsIdle

SpecRows == InitRows /\ [][NextRows]_vars

\* The rows seen, as the claim reads them.
NameOf(row) == IF row.name = Null THEN "" ELSE Get(row.name)
RowsOf(name) == { i \in 1..Len(rowEvents) : NameOf(rowEvents[i]) = name }
WeekKeys(i) ==
    (IF rowEvents[i].current_week = Null THEN {} ELSE {Get(rowEvents[i].current_week)})
    \cup (IF rowEvents[i].next_week = Null THEN {} ELSE {Get(rowEvents[i].next_week)})
Least(S) == CHOOSE i \in S : \A j \in S : i <= j
Greatest(S) == CHOOSE i \in S : \A j \in S : j <= i
TextOr(o) == IF o = Null THEN "" ELSE Get(o)
NumberOr(o) == IF o = Null THEN 0 ELSE Get(o)
WeekValue(i, k) ==
    IF rowEvents[i].next_week = Some(k)
    THEN [iso |-> NumberOr(rowEvents[i].next_iso),
          attendance |-> TextOr(rowEvents[i].next_attendance)]
    ELSE [iso |-> NumberOr(rowEvents[i].current_iso),
          attendance |-> TextOr(rowEvents[i].current_attendance)]
Alphabetical == <<"", "Alex", "Bea", "constructor", "Cy">>
Rank(name) == CHOOSE i \in 1..Len(Alphabetical) : Alphabetical[i] = name

\* C13: after any sequence of row events followed by requestCompleted the
\* result has exactly one entry per distinct name seen, with the level of
\* the first row of that name and a weeks map with one key per distinct
\* non-empty current or next week of the rows of that name; for a repeated
\* week key the latest row wins, within one row the next-week value wins
\* over the current-week value; the result is sorted by name.
C13_CombinedPerPerson ==
    rowPc = "completed" =>
        LET res == Get(results)
        IN /\ { res[i].name : i \in 1..Len(res) } =
                  { NameOf(rowEvents[i]) : i \in 1..Len(rowEvents) }
           /\ \A i, j \in 1..Len(res) : i < j => Rank(res[i].name) < Rank(res[j].name)
           /\ \A i \in 1..Len(res) :
                  LET mine == RowsOf(res[i].name)
                  IN /\ res[i].level = TextOr(rowEvents[Least(mine)].Level)
                     /\ DOMAIN res[i].weeks = UNION { WeekKeys(r) : r \in mine }
                     /\ \A k \in DOMAIN res[i].weeks :
                            res[i].weeks[k] =
                                WeekValue(Greatest({ r \in mine : k \in WeekKeys(r) }), k)


\* ---- claims on getAnnualLeaveHandler ----------------------------------------
\* The request as the claims describe it.
Unparseable(r) == r.kind \in {"string", "stream"} /\ ~JsonParse(r.text).ok
ParsedBody(r) ==
    IF r.kind = "object" THEN r.value
    ELSE IF r.kind \in {"string", "stream"} THEN JsonParse(r.text).value
    ELSE JsonObject(Null)
LacksInitials(r) == ~Unparseable(r) /\ ~TruthyStr(ParsedBody(r).initials)
HasInitials(r) == ~Unparseable(r) /\ TruthyStr(ParsedBody(r).initials)

Answered(p, status) == pc[p] = "done" /\ resp[p] # Null /\ Get(resp[p]).status = status
MissedCache(p) == calls[p].kv = 1
LeaveQueryFailed(p) ==
    queries[p].annual = "fail" \/ queries[p].future = "fail" \/ queries[p].user = "fail"
AnyCallFailed(p) ==
    queries[p].kv = "fail" \/ queries[p].team = "fail" \/ LeaveQueryFailed(p)
AllPopulated ==
    /\ cachedAnnualLeave # Null
    /\ cachedFutureLeave # Null
    /\ cachedUserDetails # Null
    /\ cachedTeamAowMap # Null

\* C1: every 200 answer to a request with initials i carries in
\* user_details.leaveEntries only leave of person i, and the totals of i,
\* whatever was served before.
C1_OnlyOwnLeave ==
    \A p \in Slots :
        Answered(p, 200) =>
            LET details == Get(resp[p]).json.user_details
                own == leaveTotals(recordsOf(selectUserLeave(leaveTable, userInitials[p],
                                                             today)))
            IN /\ \A i \in 1..Len(details.leaveEntries) :
                      details.leaveEntries[i].person = userInitials[p]
               /\ details.totals.standard = own.standard
               /\ details.totals.unpaid = own.unpaid
               /\ details.totals.purchase = own.purchase
               /\ details.totals.rejected = own.rejected

\* C2: with all four cache variables populated, a request with non-empty
\* initials is answered 200 with exactly the cached annual_leave,
\* future_leave and user_details, issues no Key Vault or SQL call and
\* writes no cache variable, also when the cached lists are empty; and a
\* populated cache is never emptied again.
C2_CacheHit ==
    /\ [][\A p \in Slots :
            (pc[p] = "body" /\ pc'[p] # "body" /\ AllPopulated /\ HasInitials(req[p])) =>
                /\ pc'[p] = "done"
                /\ resp'[p] = Some(JsonResponse(Get(cachedAnnualLeave),
                                                Get(cachedFutureLeave),
                                                Get(cachedUserDetails)))
                /\ calls'[p] = NoCalls
                /\ UNCHANGED cacheVars]_vars
    /\ [][AllPopulated => AllPopulated']_vars

\* C2 witness: a request answered from a cache whose lists are empty.
C2_Witness ==
    \E p \in Slots :
        /\ Answered(p, 200)
        /\ calls[p] = NoCalls
        /\ cachedAnnualLeave = Some(<<>>)
        /\ cachedFutureLeave = Some(<<>>)
        /\ Get(resp[p]).json.annual_leave = <<>>

\* C3: a request whose body is not JSON, or whose parsed body has no or an
\* empty initials field, is answered 400 with a text body, without any Key
\* Vault or SQL call and without a write to a cache variable, in every
\* cache state.
C3_BadRequest400 ==
    [][\A p \in Slots :
         (pc[p] = "body" /\ pc'[p] # "body"
            /\ (Unparseable(req[p]) \/ LacksInitials(req[p]))) =>
             /\ pc'[p] = "done"
             /\ resp'[p] # Null
             /\ Get(resp'[p]).status = 400
             /\ DOMAIN Get(resp'[p]) = {"status", "text"}
             /\ calls'[p] = NoCalls
             /\ UNCHANGED cacheVars]_vars

\* C4: a request with non-empty initials that misses the cache is answered
\* 500 with 'An error occurred while processing your request.' when the Key
\* Vault lookup, the team query or a leave query fails and 200 otherwise;
\* the handler never throws and answers only 200, 400 or 500.
C4_MissStatus ==
    \A p \in Slots :
        /\ pc[p] # "thrown"
        /\ pc[p] = "done" =>
             /\ resp[p] # Null
             /\ Get(resp[p]).status \in {200, 400, 500}
             /\ MissedCache(p) =>
                  IF AnyCallFailed(p) THEN Get(resp[p]) = ProcessingError
                  ELSE Get(resp[p]).status = 200

\* C6: within one invocation each query is issued at most once; when one of
\* the three parallel leave queries fails the answer is the 500 text, with
\* none of the data of the queries that succeeded, and the invocation
\* leaves cachedAnnualLeave, cachedFutureLeave and cachedUserDetails as
\* they were.
C6_NoRetryNoPartial ==
    /\ [](\A p \in Slots :
            /\ \A q \in {"kv", "team", "annual", "future", "user"} : calls[p][q] <= 1
            /\ (pc[p] = "done" /\ LeaveQueryFailed(p)) => resp[p] = Some(ProcessingError))
    /\ [][\A p \in Slots :
            (pc[p] = "leave" /\ pc'[p] # "leave" /\ LeaveQueryFailed(p)') =>
                UNCHANGED <<cachedAnnualLeave, cachedFutureLeave, cachedUserDetails>>]_vars

\* C6 witness: an invocation answered 500 after its annual-leave query had
\* returned rows and its user query failed.
C6_Witness ==
    \E p \in Slots :
        /\ Answered(p, 500)
        /\ queries[p].annual = "ok"
        /\ queries[p].user = "fail"
        /\ annualLeaveEntries[p] # Null
        /\ Get(annualLeaveEntries[p]) # <<>>
        /\ cachedAnnualLeave = Null

C11_CacheConsistent ==
    /\ (cachedAnnualLeave = Null) = (cachedFutureLeave = Null)
    /\ (cachedFutureLeave = Null) = (cachedUserDetails = Null)
    /\ cachedUserDetails # Null => cachedTeamAowMap # Null
    /\ \A e \in DOMAIN cachedErrors : cachedErrors[e] = Null

\* C11 witness: of two overlapping invocations one failed in a leave query
\* after the team map was cached and the other filled the cache.
C11_Witness ==
    \E p, q \in Slots :
        /\ Answered(p, 500) /\ LeaveQueryFailed(p)
        /\ Answered(q, 200) /\ calls[q].user = 1
        /\ AllPopulated


(***************************************************************************)
(* queryUserAnnualLeave on its own, at every instant of the years modelled *)
(***************************************************************************)
\* An annualLeave table with leave starting on 31 March and on 1 April of
\* every year around the instants modelled.
FiscalTable ==
    [i \in 1..(3 * (NumYears + 2)) |->
        LET y == 2023 + ((i - 1) \div 3)
            k == (i - 1) % 3
        IN LeaveRow(i, IF k = 2 THEN Some("CD") ELSE Some("AB"),
                    IF k = 0 THEN D(y, 2, 31) ELSE D(y, 3, 1),
                    IF k = 0 THEN D(y, 3, 2) ELSE D(y, 3, 4),
                    Some("booked"), Some(2), Some("standard"), Null)]

InitFiscal ==
    /\ today \in Instants
    /\ teamTable = <<>>
    /\ leaveTable = FiscalTable
    /\ LeaveInit
    /\ AttInit
    /\ HelperInit
    /\ UnitsIdle

\* The "connect" handler of queryUserAnnualLeave followed by the completion
\* of its request: the fiscal year bound as parameters, and the UserDetails.
UserQuery(initials) ==
    /\ userLeave = Null
    /\ userLeave' = Some([initials |-> initials,
                          fiscalStart |-> fiscalYear(today).fiscalStart,
                          fiscalEnd |-> fiscalYear(today).fiscalEnd,
                          details |-> queryUserAnnualLeave(leaveTable, initials, today,
                                                           cachedTeamAowMap)])
    /\ UNCHANGED <<leaveVars, attVars, aowItems, routed, unitVars>>

NextFiscal == \E initials \in {"AB", "CD"} : UserQuery(initials)

SpecFiscal == InitFiscal /\ [][NextFiscal]_vars

\* C8: at every date, fiscalStart is a 1 April and fiscalEnd the 31 March of
\* the next calendar year with fiscalStart <= today <= fiscalEnd (January to
\* March: the fiscal year began in the previous year; April to December: in
\* the current one), and exactly the user's leave whose start_date lies in
\* [fiscalStart, fiscalEnd] is selected.
C8_FiscalYear ==
    userLeave # Null =>
        LET u == Get(userLeave)
            InYear(row) == /\ row.fe = Some(u.initials)
                           /\ DayNumber(u.fiscalStart) <= DayNumber(row.start_date)
                           /\ DayNumber(row.start_date) <= DayNumber(u.fiscalEnd)
        IN /\ u.fiscalStart.month = 3 /\ u.fiscalStart.date = 1
           /\ u.fiscalEnd.month = 2 /\ u.fiscalEnd.date = 31
           /\ u.fiscalEnd.year = u.fiscalStart.year + 1
           /\ DayNumber(u.fiscalStart) <= DayNumber(today)
           /\ DayNumber(today) <= DayNumber(u.fiscalEnd)
           /\ today.month \in 0..2 => u.fiscalStart.year = today.year - 1
           /\ today.month \in 3..11 => u.fiscalStart.year = today.year
           /\ { u.details.leaveEntries[i].request_id :
                    i \in 1..Len(u.details.leaveEntries) }
                = { leaveTable[i].request_id :
                      i \in { j \in 1..Len(leaveTable) : InYear(leaveTable[j]) } }

\* C8 witness: the query on a 31 March, the last day of the fiscal year,
\* selecting the leave that starts that day and not the one of 1 April.
C8_Witness ==
    /\ userLeave # Null
    /\ today.month = 2 /\ today.date = 31
    /\ Get(userLeave).initials = "AB"
    /\ \E i \in 1..Len(Get(userLeave).details.leaveEntries) :
          Get(userLeave).details.leaveEntries[i].start_date = formatDate(today)
    /\ Len(Get(userLeave).details.leaveEntries) = 2

(***************************************************************************)
(* The totals of queryUserAnnualLeave over drawn annualLeave tables        *)
(***************************************************************************)
\* Rows by kind: person, start date, status, days_taken, leave_type and
\* rejection_notes in the spellings and null/empty forms the columns take.
TotalsRowKinds ==
    << [fe |-> "AB", sd |-> D(2024, 5, 3), status |-> Some("booked"), days |-> Some(2),
        type |-> Some("standard"), notes |-> Null],
       [fe |-> "AB", sd |-> D(2024, 6, 1), status |-> Some("Booked"), days |-> Some(3),
        type |-> Some("Standard"), notes |-> Null],
       [fe |-> "AB", sd |-> D(2024, 7, 5), status |-> Some("requested"), days |-> Some(1),
        type |-> Some("standard"), notes |-> Null],
       [fe |-> "AB", sd |-> D(2024, 8, 2), status |-> Some("rejected"), days |-> Some(2),
        type |-> Some("standard"), notes |-> Some("no cover")],
       [fe |-> "AB", sd |-> D(2024, 9, 7), status |-> Some("Rejected"), days |-> Some(1),
        type |-> Some("Unpaid"), notes |-> Some("no cover")],
       [fe |-> "AB", sd |-> D(2024, 10, 4), status |-> Some("rejected"), days |-> Some(2),
        type |-> Some("purchase"), notes |-> Some("")],
       [fe |-> "AB", sd |-> D(2024, 11, 2), status |-> Some("booked"), days |-> Some(4),
        type |-> Null, notes |-> Null],
       [fe |-> "AB", sd |-> D(2025, 0, 6), status |-> Some("rejected"), days |-> Some(3),
        type |-> Some(""), notes |-> Some("no cover")],
       [fe |-> "AB", sd |-> D(2025, 1, 3), status |-> Some("rejected"), days |-> Some(1),
        type |-> Some("sick"), notes |-> Some("no cover")],
       [fe |-> "AB", sd |-> D(2025, 3, 1), status |-> Some("booked"), days |-> Some(5),
        type |-> Some("standard"), notes |-> Null],
       [fe |-> "CD", sd |-> D(2024, 5, 3), status |-> Some("booked"), days |-> Some(6),
        type |-> Some("standard"), notes |-> Null],
       [fe |-> "AB", sd |-> D(2024, 5, 10), status |-> Null, days |-> Null,
        type |-> Some("unpaid"), notes |-> Null] >>

TotalsTables ==
    UNION { [1..n -> 1..Len(TotalsRowKinds)] : n \in 0..MaxEntries }

TotalsTable(kinds) ==
    [i \in 1..Len(kinds) |->
        LET k == TotalsRowKinds[kinds[i]]
        IN LeaveRow(i, Some(k.fe), k.sd, setDate(k.sd, k.sd.date + 1),
                    k.status, k.days, k.type, k.notes)]

InitTotals ==
    /\ today \in Clock
    /\ teamTable = <<>>
    /\ \E kinds \in TotalsTables : leaveTable = TotalsTable(kinds)
    /\ LeaveInit
    /\ AttInit
    /\ HelperInit
    /\ UnitsIdle

SpecTotals == InitTotals /\ [][NextFiscal]_vars

\* The words of the claim, compared without regard to case.
Spellings(word) ==
    CASE word = "standard" -> {"standard", "Standard", "STANDARD"}
      [] word = "unpaid" -> {"unpaid", "Unpaid", "UNPAID"}
      [] word = "purchase" -> {"purchase", "Purchase", "PURCHASE"}
      [] word = "booked" -> {"booked", "Booked", "BOOKED"}
      [] word = "rejected" -> {"rejected", "Rejected", "REJECTED"}
Is(column, word) == column # Null /\ Get(column) \in Spellings(word)
NonEmpty(column) == column # Null /\ Get(column) # ""
RECURSIVE DaysOf(_)
DaysOf(S) ==
    IF S = {} THEN 0
    ELSE LET i == CHOOSE j \in S : TRUE
         IN (IF leaveTable[i].days_taken = Null THEN 0 ELSE Get(leaveTable[i].days_taken))
            + DaysOf(S \ {i})

\* C14: over the user's fiscal-year entries with a non-null leave_type,
\* totals.standard is the sum of days_taken of the entries of type
\* 'standard' with status 'booked' (both without regard to case),
\* totals.unpaid and totals.purchase the sums of the entries of type
\* 'unpaid' and 'purchase' whatever their status, totals.rejected the sum
\* of the entries with status 'rejected' and non-empty rejection_notes;
\* entries with a null leave_type count in no total.
C14_Totals ==
    userLeave # Null =>
        LET u == Get(userLeave)
            typed == { i \in 1..Len(leaveTable) :
                         /\ leaveTable[i].fe = Some(u.initials)
                         /\ DayNumber(leaveTable[i].start_date) >= DayNumber(u.fiscalStart)
                         /\ DayNumber(leaveTable[i].start_date) <= DayNumber(u.fiscalEnd)
                         /\ NonEmpty(leaveTable[i].leave_type) }
            T(i) == leaveTable[i].leave_type
            S(i) == leaveTable[i].status
        IN /\ u.details.totals.standard =
                  DaysOf({ i \in typed : Is(T(i), "standard") /\ Is(S(i), "booked") })
           /\ u.details.totals.unpaid = DaysOf({ i \in typed : Is(T(i), "unpaid") })
           /\ u.details.totals.purchase = DaysOf({ i \in typed : Is(T(i), "purchase") })
           /\ u.details.totals.rejected =
                  DaysOf({ i \in typed : /\ Is(S(i), "rejected")
                                          /\ NonEmpty(leaveTable[i].rejection_notes) })

\* C14 witness: totals of a user with a 'Booked' 'Standard' entry, a
\* rejected unpaid entry with notes, and a rejected entry with notes and no
\* leave_type.
C14_Witness ==
    /\ userLeave # Null
    /\ Get(userLeave).initials = "AB"
    /\ Len(leaveTable) = 3
    /\ \E i \in 1..3 : leaveTable[i].status = Some("Booked")
    /\ \E i \in 1..3 : leaveTable[i].leave_type = Some("Unpaid")
    /\ \E i \in 1..3 : /\ leaveTable[i].leave_type = Some("")
                         /\ leaveTable[i].status = Some("rejected")
    /\ Get(userLeave).details.totals.standard = 3
    /\ Get(userLeave).details.totals.unpaid = 1
    /\ Get(userLeave).details.totals.rejected = 1

(***************************************************************************)
(* parseConnectionString on the connection strings the handlers build      *)
(***************************************************************************)
\* String.prototype.split(sep) for a one-character separator.
splitOn(s, sep) ==
    LET seps == { i \in 1..Len(s) : s[i] = sep }
        SepAt(k) == IF k = 0 THEN 0
                    ELSE IF k > Cardinality(seps) THEN Len(s) + 1
                    ELSE CHOOSE i \in seps : Cardinality({ j \in seps : j < i }) = k - 1
    IN [k \in 1..(Cardinality(seps) + 1) |-> SubSeq(s, SepAt(k - 1) + 1, SepAt(k) - 1)]

sqlServer ==
    <<"h", "e", "l", "i", "x", "-", "d", "a", "t", "a", "b", "a", "s", "e",
      "-", "s", "e", "r", "v", "e", "r", ".", "d", "a", "t", "a", "b", "a",
      "s", "e", ".", "w", "i", "n", "d", "o", "w", "s", ".", "n", "e", "t">>
projectDataDb ==
    <<"h", "e", "l", "i", "x", "-", "p", "r", "o", "j", "e", "c", "t", "-",
      "d", "a", "t", "a">>
coreDataDb ==
    <<"h", "e", "l", "i", "x", "-", "c", "o", "r", "e", "-", "d", "a", "t",
      "a">>
UserName == SubSeq(sqlServer, 1, 21)
KeyServer == <<"S", "e", "r", "v", "e", "r">>
KeyDatabase == <<"D", "a", "t", "a", "b", "a", "s", "e">>
KeyUserID == <<"U", "s", "e", "r", " ", "I", "D">>
KeyPassword == <<"P", "a", "s", "s", "w", "o", "r", "d">>
KeyEncrypt == <<"E", "n", "c", "r", "y", "p", "t">>
KeyTrustServerCertificate ==
    <<"T", "r", "u", "s", "t", "S", "e", "r", "v", "e", "r", "C", "e", "r",
      "t", "i", "f", "i", "c", "a", "t", "e">>
KeyConnectTimeout ==
    <<"C", "o", "n", "n", "e", "c", "t", " ", "T", "i", "m", "e", "o", "u",
      "t">>
TextTrue == <<"t", "r", "u", "e">>
TextFalse == <<"f", "a", "l", "s", "e">>

\* parseInt(value, 10) on an unsigned value: its leading digits, or NaN.
DigitValue ==
    [c \in {"0", "1", "2", "3", "4", "5", "6", "7", "8", "9"} |->
        CASE c = "0" -> 0 [] c = "1" -> 1 [] c = "2" -> 2 [] c = "3" -> 3 [] c = "4" -> 4
          [] c = "5" -> 5 [] c = "6" -> 6 [] c = "7" -> 7 [] c = "8" -> 8 [] c = "9" -> 9]
RECURSIVE parseDigits(_, _)
parseDigits(s, acc) ==
    IF s # <<>> /\ Head(s) \in DOMAIN DigitValue
    THEN parseDigits(Tail(s), 10 * acc + DigitValue[Head(s)])
    ELSE acc
parseInt(value) ==
    LET t == trimStart(value)
    IN IF t # <<>> /\ Head(t) \in DOMAIN DigitValue THEN Some(parseDigits(t, 0))
       ELSE Some("NaN")

\* The config object: absent properties are Null; options is absent while
\* all of its four properties are.
EmptyConfig ==
    [server |-> Null, authentication |-> Null,
     options |-> [database |-> Null, encrypt |-> Null, trustServerCertificate |-> Null,
                  connectTimeout |-> Null]]

\* The body of parts.forEach for one part.
parsePart(config, part) ==
    LET pieces == splitOn(part, "=")
        key == pieces[1]
        value == IF Len(pieces) >= 2 THEN pieces[2] ELSE <<>>
        k == trim(key)
    IN IF key = <<>> \/ value = <<>> THEN config
       ELSE IF k = KeyServer THEN [config EXCEPT !.server = Some(value)]
       ELSE IF k = KeyDatabase THEN [config EXCEPT !.options.database = Some(value)]
       ELSE IF k = KeyUserID
            THEN [config EXCEPT !.authentication =
                     Some([type |-> "default", userName |-> value, password |-> <<>>])]
       ELSE IF k = KeyPassword
            THEN LET auth == IF config.authentication = Null
                             THEN [type |-> "default", userName |-> <<>>, password |-> <<>>]
                             ELSE Get(config.authentication)
                 IN [config EXCEPT !.authentication = Some([auth EXCEPT !.password = value])]
       ELSE IF k = KeyEncrypt
            THEN [config EXCEPT !.options.encrypt = Some(toLowerCase(value) = TextTrue)]
       ELSE IF k = KeyTrustServerCertificate
            THEN [config EXCEPT !.options.trustServerCertificate =
                     Some(toLowerCase(value) = TextTrue)]
       ELSE IF k = KeyConnectTimeout
            THEN [config EXCEPT !.options.connectTimeout = parseInt(value)]
       ELSE config

RECURSIVE parseParts(_, _)
parseParts(config, parts) ==
    IF parts = <<>> THEN config
    ELSE parseParts(parsePart(config, Head(parts)), Tail(parts))

parseConnectionString(connectionString) ==
    parseParts(EmptyConfig, splitOn(connectionString, ";"))

\* `Server=${server};Database=${database};User ID=helix-database-server;
\*  Password=${password};Encrypt=true;TrustServerCertificate=false;`
connectionStringOf(server, database, password) ==
    KeyServer \o <<"=">> \o server \o <<";">>
    \o KeyDatabase \o <<"=">> \o database \o <<";">>
    \o KeyUserID \o <<"=">> \o UserName \o <<";">>
    \o KeyPassword \o <<"=">> \o password \o <<";">>
    \o KeyEncrypt \o <<"=">> \o TextTrue \o <<";">>
    \o KeyTrustServerCertificate \o <<"=">> \o TextFalse \o <<";">>

\* The secret values Key Vault may return: undefined, every text of up to
\* MaxPassword characters over letters, '=', ';' and space, and one text
\* that reads as a further part of a connection string.
PasswordChars == {"p", "W", "=", ";", " "}
SecretValues ==
    {Null, Some(<<"p", ";">> \o KeyEncrypt \o <<"=">> \o TextFalse)}
    \cup { Some(t) : t \in UNION { [1..n -> PasswordChars] : n \in 0..MaxPassword } }

outsideConfigs == <<leaveVars, attVars, helperVars, rowVars, appVars, enqVars, homeVars>>

\* secretClient.getSecret resolves.
SecretResolved(v) ==
    /\ cfgPc = "idle"
    /\ cfgPc' = "secret"
    /\ secretValue' = v
    /\ UNCHANGED <<leaveConfigs, attConfigs>>
    /\ UNCHANGED outsideConfigs

\* Step 2 of getAnnualLeaveHandler.
ParseLeaveConfigs ==
    /\ cfgPc = "secret"
    /\ leaveConfigs = Null
    /\ LET password == IF secretValue = Null THEN <<>> ELSE Get(secretValue)
       IN leaveConfigs' =
              Some([projectData |->
                        parseConnectionString(connectionStringOf(sqlServer, projectDataDb,
                                                                 password)),
                    coreData |->
                        parseConnectionString(connectionStringOf(sqlServer, coreDataDb,
                                                                 password))])
    /\ UNCHANGED <<cfgPc, secretValue, attConfigs>>
    /\ UNCHANGED outsideConfigs

\* Step 2 of getAttendanceHandler (its parseConnectionString has the same
\* body, without the logging).
ParseAttendanceConfigs ==
    /\ cfgPc = "secret"
    /\ attConfigs = Null
    /\ LET password == IF secretValue = Null THEN <<>> ELSE Get(secretValue)
       IN attConfigs' =
              Some([projectData |->
                        parseConnectionString(connectionStringOf(sqlServer, projectDataDb,
                                                                 password)),
                    coreData |->
                        parseConnectionString(connectionStringOf(sqlServer, coreDataDb,
                                                                 password))])
    /\ UNCHANGED <<cfgPc, secretValue, leaveConfigs>>
    /\ UNCHANGED outsideConfigs

NextConfigs ==
    \/ \E v \in SecretValues : SecretResolved(v)
    \/ ParseLeaveConfigs
    \/ ParseAttendanceConfigs

InitConfigs ==
    /\ today \in Clock
    /\ teamTable = <<>>
    /\ leaveTable = <<>>
    /\ LeaveInit
    /\ AttInit
    /\ HelperInit
    /\ UnitsIdle

SpecConfigs == InitConfigs /\ [][NextConfigs]_vars

\* The configuration the claim describes for a database and a password.
Configured(config, database, password) ==
    /\ config.server = Some(sqlServer)
    /\ config.options.database = Some(database)
    /\ config.options.encrypt = Some(TRUE)
    /\ config.options.trustServerCertificate = Some(FALSE)
    /\ config.authentication # Null
    /\ Get(config.authentication).userName = UserName
    /\ Get(config.authentication).password = password
PasswordReturned == IF secretValue = Null THEN <<>> ELSE Get(secretValue)

\* C15: for every password returned by Key Vault, the configurations
\* parseConnectionString makes of the handlers' connection strings have
\* authentication.options.password equal to that password, userName
\* 'helix-database-server', the configured server and database, encrypt
\* true and trustServerCertificate false.
C15_ConfigFromPassword ==
    /\ leaveConfigs # Null =>
           /\ Configured(Get(leaveConfigs).projectData, projectDataDb, PasswordReturned)
           /\ Configured(Get(leaveConfigs).coreData, coreDataDb, PasswordReturned)
    /\ attConfigs # Null =>
           /\ Configured(Get(attConfigs).projectData, projectDataDb, PasswordReturned)
           /\ Configured(Get(attConfigs).coreData, coreDataDb, PasswordReturned)

(***************************************************************************)
(* The App component: props from its parent, link clicks, renders          *)
(***************************************************************************)
\* const tabs: Tab[]
tabs ==
    << [key |-> "home", disabled |-> FALSE], [key |-> "forms", disabled |-> FALSE],
       [key |-> "resources", disabled |-> FALSE], [key |-> "enquiries", disabled |-> FALSE],
       [key |-> "matters", disabled |-> FALSE], [key |-> "roadmap", disabled |-> FALSE],
       [key |-> "reporting", disabled |-> TRUE] >>

\* The element renderContent returns for a value of activeTab.
renderContentNoDefault(tab, ctx, user, enq, mat) ==
    [component |-> CASE tab = "home" -> "Home" [] tab = "forms" -> "Forms"
                     [] tab = "resources" -> "Resources" [] tab = "enquiries" -> "Enquiries"
                     [] tab = "matters" -> "Matters" [] tab = "roadmap" -> "Roadmap"
                     [] OTHER -> "Reporting",
     userData |-> user]

renderContent(tab, ctx, user, enq, mat) ==
    CASE tab = "home" ->
            [component |-> "Home", context |-> ctx, userData |-> user, enquiries |-> enq]
      [] tab = "forms" -> [component |-> "Forms", userData |-> user]
      [] tab = "resources" -> [component |-> "Resources"]
      [] tab = "enquiries" ->
            [component |-> "Enquiries", context |-> ctx, userData |-> user,
             enquiries |-> enq]
      [] tab = "matters" ->
            [component |-> "Matters", matters |-> IF mat = Null THEN <<>> ELSE Get(mat),
             userData |-> user]
      [] tab = "roadmap" -> [component |-> "Roadmap", userData |-> user]
      [] OTHER ->
            [component |-> "Home", context |-> ctx, userData |-> user, enquiries |-> enq]

\* What App returns: the loading text, or the tabs and the content.
render(tab, ctx, user, enq, mat) ==
    IF ctx = Null \/ user = Null \/ enq = Null \/ mat = Null
    THEN [loading |-> TRUE]
    ELSE [loading |-> FALSE, selectedKey |-> tab,
          content |-> renderContent(tab, ctx, user, enq, mat)]

\* The values the parent passes: null, an empty list, a list.
ContextValues == {Null, Some("default"), Some("dark")}
ListValues == {Null, Some(<<>>), Some(<<1>>)}

\* The items onLinkClick is called with: undefined, an item without
\* itemKey, an item with an empty itemKey, and the item of each tab.
LinkItems ==
    {Null, Some([itemKey |-> Null]), Some([itemKey |-> Some("")])}
    \cup { Some([itemKey |-> Some(tabs[i].key)]) : i \in 1..Len(tabs) }

outsideApp == <<leaveVars, attVars, helperVars, rowVars, cfgVars, enqVars, homeVars>>

\* The parent renders App with new props.
PropsChanged(ctx, user, enq, mat) ==
    /\ <<ctx, user, enq, mat>> # <<teamsContext, userData, enquiries, matters>>
    /\ teamsContext' = ctx
    /\ userData' = user
    /\ enquiries' = enq
    /\ matters' = mat
    /\ rendered' = render(activeTab, ctx, user, enq, mat)
    /\ appEvent' = [kind |-> "props"]
    /\ UNCHANGED activeTab
    /\ UNCHANGED outsideApp

\* onLinkClick of CustomTabs, which exists only in the loaded render.
LinkClick(item) ==
    /\ ~rendered.loading
    /\ LET key == IF item # Null /\ TruthyStr(Get(item).itemKey)
                  THEN Get(Get(item).itemKey) ELSE "home"
       IN /\ activeTab' = key
          /\ rendered' = render(key, teamsContext, userData, enquiries, matters)
    /\ appEvent' = [kind |-> "click", item |-> item]
    /\ UNCHANGED <<teamsContext, userData, enquiries, matters>>
    /\ UNCHANGED outsideApp

NextApp ==
    \/ \E ctx \in ContextValues, user, enq, mat \in ListValues :
            PropsChanged(ctx, user, enq, mat)
    \/ \E item \in LinkItems : LinkClick(item)

InitApp ==
    /\ today \in Clock
    /\ teamTable = <<>>
    /\ leaveTable = <<>>
    /\ LeaveInit
    /\ AttInit
    /\ HelperInit
    /\ UnitsIdle

SpecApp == InitApp /\ [][NextApp]_vars

AllLoaded == teamsContext # Null /\ userData # Null /\ enquiries # Null /\ matters # Null
ComponentOfTab ==
    [t \in {"home", "forms", "resources", "enquiries", "matters", "roadmap"} |->
        CASE t = "home" -> "Home" [] t = "forms" -> "Forms" [] t = "resources" -> "Resources"
          [] t = "enquiries" -> "Enquiries" [] t = "matters" -> "Matters"
          [] t = "roadmap" -> "Roadmap"]

\* C16: App renders tab content only when teamsContext, userData, enquiries
\* and matters are all non-null and otherwise only the loading text;
\* activeTab starts as 'home', a link click sets it to the key of the
\* clicked item, or to 'home' when the item has no key, nothing else
\* changes it; an activeTab without a case in renderContent, such as
\* 'reporting', renders the Home tab.
C16_TabContent ==
    /\ activeTab = "home"
    /\ [](IF AllLoaded
          THEN /\ ~rendered.loading
               /\ rendered.selectedKey = activeTab
               /\ rendered.content.component =
                      IF activeTab \in DOMAIN ComponentOfTab
                      THEN ComponentOfTab[activeTab] ELSE "Home"
          ELSE rendered = [loading |-> TRUE])
    /\ [][IF appEvent'.kind = "click"
          THEN activeTab' =
                   IF appEvent'.item = Null \/ Get(appEvent'.item).itemKey = Null
                      \/ Get(appEvent'.item).itemKey = Some("")
                   THEN "home" ELSE Get(Get(appEvent'.item).itemKey)
          ELSE activeTab' = activeTab]_vars

\* C16 witness: after a click on the item of the disabled 'reporting' tab,
\* with all four props loaded (two of them empty lists), Home is rendered.
C16_Witness ==
    /\ appEvent = [kind |-> "click", item |-> Some([itemKey |-> Some("reporting")])]
    /\ activeTab = "reporting"
    /\ userData = Some(<<>>) /\ matters = Some(<<>>)
    /\ ~rendered.loading
    /\ rendered.content.component = "Home"

(***************************************************************************)
(* Approval routing on its own, over AOW strings written from items        *)
(***************************************************************************)
Capitalised(w) == <<UpperCase[Head(w)]>> \o Tail(w)
AllCaps(w) == [i \in 1..Len(w) |-> UpperCase[w[i]]]

\* The words of an AOW item: 'construction' in three spellings, and others.
ConstructionWords == { Construction, Capitalised(Construction), AllCaps(Construction) }
OtherWords ==
    { <<>>, <<"p", "r", "o", "p", "e", "r", "t", "y">>, Construction \o <<"s">>,
      <<"c", "o", "n", " ">> \o SubSeq(Construction, 4, 12) }
Paddings == { <<>>, <<" ">> }

Items == [lead : Paddings, word : ConstructionWords \cup OtherWords, trail : Paddings]
ItemLists == UNION { [1..n -> Items] : n \in 0..MaxItems }

\* The AOW text: the items, each with its padding, joined by commas.
RECURSIVE JoinItems(_)
JoinItems(items) ==
    IF items = <<>> THEN <<>>
    ELSE LET it == items[Len(items)]
             text == it.lead \o it.word \o it.trail
         IN IF Len(items) = 1 THEN text
            ELSE JoinItems(SubSeq(items, 1, Len(items) - 1)) \o <<",">> \o text

\* Leave of a person of the team table and of one who is not in it.
RoutingLeave ==
    << LeaveRow(1, Some("AB"), D(2025, 2, 30), D(2025, 3, 1), Some("requested"), Some(2),
                Some("standard"), Null),
       LeaveRow(2, Some("EF"), D(2025, 2, 31), D(2025, 2, 31), Some("requested"), Some(1),
                Some("standard"), Null),
       LeaveRow(3, Some("AB"), D(2025, 4, 1), D(2025, 4, 2), Some("requested"), Some(2),
                Some("standard"), Null) >>

InitRouting ==
    /\ today \in Clock
    /\ leaveTable = RoutingLeave
    /\ \E items \in ItemLists :
          /\ aowItems = items
          /\ \/ teamTable = <<TeamRow(Some("AB"), Some(JoinItems(items)))>>
             \/ items = <<>> /\ teamTable = <<TeamRow(Some("AB"), Null)>>
             \/ items = <<>> /\ teamTable = <<>>
    /\ LeaveInit
    /\ AttInit
    /\ userLeave = Null
    /\ routed = Null
    /\ UnitsIdle

\* Steps 3 to 5 of the handler with every query succeeding: the team map,
\* the two leave lists, and their enhancement.
Route ==
    /\ routed = Null
    /\ routed' =
         Some([annual_leave |->
                  enhanceLeaveWithAOWAndApprover(queryAnnualLeave(leaveTable, today),
                                                 queryTeamDataFromSQL(teamTable)),
               future_leave |->
                  enhanceLeaveWithAOWAndApprover(queryFutureLeave(leaveTable, today),
                                                 queryTeamDataFromSQL(teamTable))])
    /\ UNCHANGED <<leaveVars, attVars, userLeave, aowItems, unitVars>>

NextRouting == Route

SpecRouting == InitRouting /\ [][NextRouting]_vars

\* The AOW column of a person in the team table, Null without a row.
TableAow(person) ==
    IF \E i \in 1..Len(teamTable) : teamTable[i].Initials = Some(person)
    THEN teamTable[CHOOSE i \in 1..Len(teamTable) : teamTable[i].Initials = Some(person)].AOW
    ELSE Null

\* C9: every entry of annual_leave and future_leave has two approvers, the
\* first 'LZ'; the second is 'JW' when an item of the person's AOW is
\* 'construction' up to case and surrounding blanks and 'AC' otherwise,
\* also without AOW or without a team row; its AOW is the team table value
\* or null.
C9_Routing ==
    routed # Null =>
        \A list \in {Get(routed).annual_leave, Get(routed).future_leave} :
            \A i \in 1..Len(list) :
                LET entry == list[i]
                    inConstruction ==
                        /\ entry.person = "AB"
                        /\ TableAow("AB") # Null
                        /\ \E k \in 1..Len(aowItems) : aowItems[k].word \in ConstructionWords
                IN /\ Len(entry.approvers) = 2
                   /\ entry.approvers[1] = "LZ"
                   /\ entry.approvers[2] = IF inConstruction THEN "JW" ELSE "AC"
                   /\ entry.AOW = IF TableAow(entry.person) = Some(<<>>) THEN Null
                                  ELSE TableAow(entry.person)

\* C9 witness: an AOW of two items, the second ' Construction' with a blank
\* before it, routed to JW, next to an entry of a person without a team row
\* routed to AC.
C9_Witness ==
    /\ routed # Null
    /\ Len(aowItems) = 2
    /\ aowItems[1].word \notin ConstructionWords
    /\ aowItems[2] = [lead |-> <<" ">>, word |-> Capitalised(Construction), trail |-> <<>>]
    /\ \E i \in 1..Len(Get(routed).annual_leave) :
          /\ Get(routed).annual_leave[i].person = "AB"
          /\ Get(routed).annual_leave[i].approvers = <<"LZ", "JW">>
    /\ \E i \in 1..Len(Get(routed).annual_leave) :
          /\ Get(routed).annual_leave[i].person = "EF"
          /\ Get(routed).annual_leave[i].approvers = <<"LZ", "AC">>
          /\ Get(routed).annual_leave[i].AOW = Null
    /\ Len(Get(routed).future_leave) > 0

(***************************************************************************)
(* The Enquiries tab: filters, slider, pagination and the rating request   *)
(***************************************************************************)
\* String(n) of a non-negative integer.
Digits == <<"0", "1", "2", "3", "4", "5", "6", "7", "8", "9">>
RECURSIVE StringOf(_)
StringOf(n) ==
    IF n < 10 THEN <<Digits[n + 1]>> ELSE StringOf(n \div 10) \o <<Digits[(n % 10) + 1]>>

\* String(poid.acid): acid arrives as a number or as a string.
StringOfAcid(acid) == IF acid.type = "number" THEN StringOf(acid.value) ELSE acid.value

\* String.prototype.includes
includesText(s, sub) ==
    \E i \in 0..(Len(s) - Len(sub)) : SubSeq(s, i + 1, i + Len(sub)) = sub

\* Array.prototype.slice(from, to) for from, to >= 0.
slice(list, from, to) ==
    SubSeq(list, from + 1, IF to < Len(list) THEN to ELSE Len(list))

\* The texts of the sample.
UserPrincipalName == <<"l", "z", "@", "H", "e", "l", "i", "x", "-", "L", "a",
                       "w", ".", "c", "o", "m">>
PocOfUser == <<"L", "Z", "@", "h", "e", "l", "i", "x", "-", "l", "a", "w",
               ".", "c", "o", "m">>
TeamInbox == <<"t", "e", "a", "m", "@", "h", "e", "l", "i", "x", "-", "l",
               "a", "w", ".", "c", "o", "m">>
PropertyInbox == <<"P", "r", "o", "p", "e", "r", "t", "y", "@", "h", "e",
                   "l", "i", "x", "-", "l", "a", "w", ".",
                   "c", "o", "m">>
PocOfColleague == <<"a", "c", "@", "h", "e", "l", "i", "x", "-", "l", "a",
                    "w", ".", "c", "o", "m">>
NameAnn == <<"A", "n", "n">>
NameBob == <<"B", "o", "b">>
NameSmith == <<"S", "m", "i", "t", "h">>
NameJones == <<"J", "o", "n", "e", "s">>
EmailAnn == <<"a", "n", "n", "@", "s", "m", "i", "t", "h", ".", "c", "o">>
CompanySmith == <<"S", "m", "i", "t", "h", " ", "L", "t", "d">>
AreaCommercial == <<"C", "o", "m", "m", "e", "r", "c", "i", "a", "l">>
AreaProperty == <<"p", "r", "o", "p", "e", "r", "t", "y">>

triagedPointOfContactEmails ==
    { toLowerCase(e) :
        e \in { <<"a", "u", "t", "o", "m", "a", "t", "i", "o", "n", "s", "@",
                  "h", "e", "l", "i", "x", "-", "l", "a",
                  "w", ".", "c", "o", "m">>,
                <<"c", "o", "m", "m", "e", "r", "c", "i", "a", "l", "@", "h",
                  "e", "l", "i", "x", "-", "l", "a", "w",
                  ".", "c", "o", "m">>,
                <<"c", "o", "n", "s", "t", "r", "u", "c", "t", "i", "o", "n",
                  "@", "h", "e", "l", "i", "x", "-", "l",
                  "a", "w", ".", "c", "o", "m">>,
                <<"e", "m", "p", "l", "o", "y", "m", "e", "n", "t", "@", "h",
                  "e", "l", "i", "x", "-", "l", "a", "w",
                  ".", "c", "o", "m">>,
                PropertyInbox } }

\* The enquiries prop: NumEnquiries enquiries, the last without a
\* Touchpoint_Date and the one before with a Touchpoint_Date that is no ISO
\* date; dates out of order and with ties.
SampleEnquiry(i) ==
    [ID |-> StringOf(i),
     Touchpoint_Date |->
        IF i = NumEnquiries THEN Null
        ELSE IF i = NumEnquiries - 1 THEN Some([iso |-> FALSE, time |-> 0])
        ELSE Some([iso |-> TRUE, time |-> ((i * 5) % 11) + 1]),
     Point_of_Contact |->
        CASE i % 5 = 0 -> Some(PocOfUser)
          [] i % 5 = 1 -> Some(TeamInbox)
          [] i % 5 = 2 -> Some(PropertyInbox)
          [] i % 5 = 3 -> Some(PocOfColleague)
          [] OTHER -> Null,
     First_Name |-> IF i % 7 = 3 THEN NameAnn ELSE NameBob,
     Last_Name |-> IF i % 7 = 3 THEN NameSmith ELSE NameJones,
     Email |-> IF i % 7 = 3 THEN Some(EmailAnn) ELSE Null,
     Company |-> IF i % 6 = 1 THEN Some(CompanySmith) ELSE Null,
     Area_of_Work |->
        CASE i % 3 = 0 -> Some(AreaCommercial)
          [] i % 3 = 1 -> Some(AreaProperty)
          [] OTHER -> Null,
     Rating |-> Null]

SampleEnquiries == [i \in 1..NumEnquiries |-> SampleEnquiry(i)]

\* The POID rows: of the user and of a colleague, with acid as a number and
\* as a string, one of them of the enquiry without an ISO date, one of no
\* enquiry.
SamplePoidData ==
    << [acid |-> [type |-> "number", value |-> 5], poc |-> Some(PocOfUser)],
       [acid |-> [type |-> "string", value |-> StringOf(6)], poc |-> Some(PocOfColleague)],
       [acid |-> [type |-> "number", value |-> NumEnquiries - 1], poc |-> Some(PocOfUser)],
       [acid |-> [type |-> "number", value |-> NumEnquiries + 50], poc |-> Null] >>

enquiriesPerPage == 12

\* No list of the sample has more pages.
MaxPages == (NumEnquiries + enquiriesPerPage - 1) \div enquiriesPerPage

\* typeof d === 'string' && isValid(parseISO(d))
isValidDate(d) == d # Null /\ Get(d).iso

\* The compare function of sortedEnquiries returns a positive number: both
\* dates parse and b is the later one.  (With a date that does not parse it
\* returns NaN.)
comesAfter(a, b) ==
    /\ isValidDate(a.Touchpoint_Date)
    /\ isValidDate(b.Touchpoint_Date)
    /\ Get(b.Touchpoint_Date).time - Get(a.Touchpoint_Date).time > 0

\* [...list].sort(compare) as a stable insertion sort.  Enquiries whose date
\* does not parse stay where the NaN leaves them; sortedValidEnquiries drops
\* them.
RECURSIVE insertSorted(_, _)
insertSorted(sorted, x) ==
    IF sorted # <<>> /\ comesAfter(sorted[Len(sorted)], x)
    THEN Append(insertSorted(SubSeq(sorted, 1, Len(sorted) - 1), x), sorted[Len(sorted)])
    ELSE Append(sorted, x)

RECURSIVE sortByDateDescending(_)
sortByDateDescending(list) ==
    IF list = <<>> THEN <<>>
    ELSE insertSorted(sortByDateDescending(SubSeq(list, 1, Len(list) - 1)), list[Len(list)])

sortedEnquiriesOf(local) == sortByDateDescending(local)

sortedValidEnquiriesOf(local) ==
    LET Valid(enq) == isValidDate(enq.Touchpoint_Date)
    IN SelectSeq(sortedEnquiriesOf(local), Valid)

sortedEnquiries == sortedEnquiriesOf(localEnquiries)

sortedValidEnquiries == sortedValidEnquiriesOf(localEnquiries)

enquiriesInSliderRange ==
    slice(sortedValidEnquiries, currentSliderStart, currentSliderEnd + 1)

\* The 'Converted' case of filteredEnquiries.
convertedOfUser ==
    IF context # Null /\ TruthyText(Get(context).userPrincipalName)
    THEN LET userEmail == toLowerCase(Get(Get(context).userPrincipalName))
             OfUser(p) == p.poc # Null /\ toLowerCase(Get(p.poc)) = userEmail
             mine == SelectSeq(convertedPoidDataList, OfUser)
             userFilteredEnquiryIds == { StringOfAcid(mine[i].acid) : i \in 1..Len(mine) }
             Listed(enq) == enq.ID \in userFilteredEnquiryIds
         IN SelectSeq(convertedEnquiriesList, Listed)
    ELSE convertedEnquiriesList

filteredByState ==
    LET upn == IF context # Null /\ Get(context).userPrincipalName # Null
               THEN Get(Get(context).userPrincipalName) ELSE <<>>
        Claimed(e) == /\ e.Point_of_Contact # Null
                      /\ toLowerCase(Get(e.Point_of_Contact)) = toLowerCase(upn)
        Claimable(e) == /\ e.Point_of_Contact # Null
                        /\ toLowerCase(Get(e.Point_of_Contact)) = TeamInbox
        Triaged(e) == /\ TruthyText(e.Point_of_Contact)
                      /\ toLowerCase(Get(e.Point_of_Contact)) \in triagedPointOfContactEmails
    IN CASE activeMainTab = "All" -> enquiriesInSliderRange
         [] activeMainTab = "Claimed" -> SelectSeq(enquiriesInSliderRange, Claimed)
         [] activeMainTab = "Converted" -> convertedOfUser
         [] activeMainTab = "Claimable" -> SelectSeq(enquiriesInSliderRange, Claimable)
         [] activeMainTab = "Triaged" -> SelectSeq(enquiriesInSliderRange, Triaged)
         [] OTHER -> enquiriesInSliderRange

filteredEnquiries ==
    LET lowerSearchTerm == toLowerCase(searchTerm)
        Found(en) ==
            \/ includesText(toLowerCase(en.First_Name \o <<" ">> \o en.Last_Name),
                            lowerSearchTerm)
            \/ en.Email # Null /\ includesText(toLowerCase(Get(en.Email)), lowerSearchTerm)
            \/ TruthyText(en.Company)
               /\ includesText(toLowerCase(Get(en.Company)), lowerSearchTerm)
        InArea(enq) == /\ TruthyText(enq.Area_of_Work)
                       /\ toLowerCase(Get(enq.Area_of_Work)) = toLowerCase(Get(selectedArea))
        searched == IF searchTerm # <<>> THEN SelectSeq(filteredByState, Found)
                    ELSE filteredByState
    IN IF TruthyText(selectedArea) THEN SelectSeq(searched, InArea) ELSE searched

indexOfLastEnquiry == currentPage * enquiriesPerPage
indexOfFirstEnquiry == indexOfLastEnquiry - enquiriesPerPage
currentEnquiries == slice(filteredEnquiries, indexOfFirstEnquiry, indexOfLastEnquiry)

\* Math.ceil(filteredEnquiries.length / enquiriesPerPage)
totalPages == (Len(filteredEnquiries) + enquiriesPerPage - 1) \div enquiriesPerPage

\* The effect on [poidData, localEnquiries]: the converted lists.
convertedEnquiriesOf(poid, local, before) ==
    IF poid # Null /\ Len(local) > 0
    THEN LET Converted(enq) == \E i \in 1..Len(Get(poid)) :
                                   StringOfAcid(Get(poid)[i].acid) = enq.ID
         IN SelectSeq(local, Converted)
    ELSE before

convertedPoidDataOf(poid, local, before) ==
    IF poid # Null /\ Len(local) > 0
    THEN LET OfEnquiry(p) == \E i \in 1..Len(local) : local[i].ID = StringOfAcid(p.acid)
         IN SelectSeq(Get(poid), OfEnquiry)
    ELSE before

\* The effects on [localEnquiries] and [sortedValidEnquiries.length]: the
\* slider is set to the whole range of valid dates.
sliderOf(local, before) ==
    IF Len(sortedValidEnquiriesOf(local)) > 0
    THEN [start |-> IF Len(local) > 0 THEN 0 ELSE before.start,
          end |-> Len(sortedValidEnquiriesOf(local)) - 1]
    ELSE before

\* The rating modal is open over the page (isBlocking is false): a click
\* outside it dismisses it, so the menu, the search box, the slider, the
\* pagination and the cards are reached only when it is closed.
\* The list of cards and the pagination are rendered when a state tab or an
\* area is selected; the overview with the slider when neither is.
ListShown == TruthyText(selectedArea) \/ activeMainTab # ""

stateTabs == {"All", "Claimed", "Converted", "Claimable", "Triaged"}
areaTabs == { <<"c", "o", "m", "m", "e", "r", "c", "i", "a", "l">> }
SearchTerms == { <<>>, NameSmith }
ratingOptions == {"Good", "Poor"}
RatedIds == { StringOf(5) }

outsideEnquiries == <<leaveVars, attVars, helperVars, rowVars, cfgVars, appVars,
                      homeVars>>

\* The POID fetch answers and App passes the new poidData.
PoidDataLoaded ==
    /\ poidData = Null
    /\ poidData' = Some(SamplePoidData)
    /\ convertedEnquiriesList' =
           convertedEnquiriesOf(Some(SamplePoidData), localEnquiries, convertedEnquiriesList)
    /\ convertedPoidDataList' =
           convertedPoidDataOf(Some(SamplePoidData), localEnquiries, convertedPoidDataList)
    /\ UNCHANGED <<context, localEnquiries, filterVars, ratingVars>>
    /\ UNCHANGED outsideEnquiries

\* setActiveState of the menu: a click on a state tab.
StateClick(key) ==
    /\ ~isRateModalOpen
    /\ activeMainTab' = IF activeMainTab = key THEN "" ELSE key
    /\ currentPage' = 1
    /\ UNCHANGED <<searchTerm, selectedArea, currentSliderStart, currentSliderEnd>>
    /\ UNCHANGED <<ratingVars, dataVars>>
    /\ UNCHANGED outsideEnquiries

\* setActiveArea of the menu: a click on an area.
AreaClick(area) ==
    /\ ~isRateModalOpen
    /\ selectedArea' = IF selectedArea = Some(area) THEN Null ELSE Some(area)
    /\ UNCHANGED <<searchTerm, currentPage, activeMainTab, currentSliderStart,
                   currentSliderEnd>>
    /\ UNCHANGED <<ratingVars, dataVars>>
    /\ UNCHANGED outsideEnquiries

\* onChange of the search box.
SearchEdit(text) ==
    /\ ~isRateModalOpen
    /\ text # searchTerm
    /\ searchTerm' = text
    /\ UNCHANGED <<currentPage, activeMainTab, selectedArea, currentSliderStart,
                   currentSliderEnd>>
    /\ UNCHANGED <<ratingVars, dataVars>>
    /\ UNCHANGED outsideEnquiries

\* onChange of the range slider of the overview.
SliderChange(from, to) ==
    /\ ~isRateModalOpen
    /\ ~ListShown
    /\ from <= to
    /\ <<from, to>> # <<currentSliderStart, currentSliderEnd>>
    /\ currentSliderStart' = from
    /\ currentSliderEnd' = to
    /\ UNCHANGED <<searchTerm, currentPage, activeMainTab, selectedArea>>
    /\ UNCHANGED <<ratingVars, dataVars>>
    /\ UNCHANGED outsideEnquiries

\* handlePageChange, called by the pagination control with one of its pages.
PageChange(page) ==
    /\ ~isRateModalOpen
    /\ ListShown
    /\ page # currentPage
    /\ page \in 1..totalPages
    /\ currentPage' = page
    /\ UNCHANGED <<searchTerm, activeMainTab, selectedArea, currentSliderStart,
                   currentSliderEnd>>
    /\ UNCHANGED <<ratingVars, dataVars>>
    /\ UNCHANGED outsideEnquiries

\* handleRate, from the card of an enquiry of the page shown.
HandleRate(id) ==
    /\ ~isRateModalOpen
    /\ ListShown
    /\ \E i \in 1..Len(currentEnquiries) : currentEnquiries[i].ID = id
    /\ ratingEnquiryId' = Some(id)
    /\ currentRating' = ""
    /\ isRateModalOpen' = TRUE
    /\ UNCHANGED <<isSuccessVisible, ratingRequest, ratingOutcome>>
    /\ UNCHANGED <<filterVars, dataVars>>
    /\ UNCHANGED outsideEnquiries

\* The radio buttons of the modal.
RatingChosen(value) ==
    /\ isRateModalOpen
    /\ value # currentRating
    /\ currentRating' = value
    /\ UNCHANGED <<isRateModalOpen, ratingEnquiryId, isSuccessVisible, ratingRequest,
                   ratingOutcome>>
    /\ UNCHANGED <<filterVars, dataVars>>
    /\ UNCHANGED outsideEnquiries

\* closeRateModal, from Cancel or the dismissal of the modal.
CloseRateModal ==
    /\ isRateModalOpen
    /\ isRateModalOpen' = FALSE
    /\ ratingEnquiryId' = Null
    /\ currentRating' = ""
    /\ UNCHANGED <<isSuccessVisible, ratingRequest, ratingOutcome>>
    /\ UNCHANGED <<filterVars, dataVars>>
    /\ UNCHANGED outsideEnquiries

\* submitRating up to the await of the fetch in handleEditRating.
SubmitRating ==
    /\ isRateModalOpen
    /\ ratingRequest = Null
    /\ ratingEnquiryId # Null /\ Get(ratingEnquiryId) # <<>>
    /\ currentRating # ""
    /\ ratingRequest' = Some([ID |-> Get(ratingEnquiryId), Rating |-> currentRating])
    /\ ratingOutcome' = "none"
    /\ UNCHANGED <<isRateModalOpen, currentRating, ratingEnquiryId, isSuccessVisible>>
    /\ UNCHANGED <<filterVars, dataVars>>
    /\ UNCHANGED outsideEnquiries

\* The fetch settles: the rest of handleEditRating, then the rest of
\* submitRating, then the effects on the new localEnquiries.
RatingResponse(outcome) ==
    /\ ratingRequest # Null
    /\ LET id == Get(ratingRequest).ID
           newRating == Get(ratingRequest).Rating
           updated == IF outcome = "ok"
                      THEN [i \in 1..Len(localEnquiries) |->
                              IF localEnquiries[i].ID = id
                              THEN [localEnquiries[i] EXCEPT !.Rating = Some(newRating)]
                              ELSE localEnquiries[i]]
                      ELSE localEnquiries
           slider == IF outcome = "ok"
                     THEN sliderOf(updated, [start |-> currentSliderStart,
                                             end |-> currentSliderEnd])
                     ELSE [start |-> currentSliderStart, end |-> currentSliderEnd]
       IN /\ localEnquiries' = updated
          /\ currentSliderStart' = slider.start
          /\ currentSliderEnd' = slider.end
          /\ convertedEnquiriesList' =
                 IF outcome = "ok"
                 THEN convertedEnquiriesOf(poidData, updated, convertedEnquiriesList)
                 ELSE convertedEnquiriesList
          /\ convertedPoidDataList' =
                 IF outcome = "ok"
                 THEN convertedPoidDataOf(poidData, updated, convertedPoidDataList)
                 ELSE convertedPoidDataList
    /\ isSuccessVisible' = TRUE
    /\ isRateModalOpen' = FALSE
    /\ ratingEnquiryId' = Null
    /\ currentRating' = ""
    /\ ratingRequest' = Null
    /\ ratingOutcome' = outcome
    /\ UNCHANGED <<context, poidData, searchTerm, currentPage, activeMainTab, selectedArea>>
    /\ UNCHANGED outsideEnquiries

\* onDismiss of the success message.
DismissSuccess ==
    /\ isSuccessVisible
    /\ isSuccessVisible' = FALSE
    /\ UNCHANGED <<isRateModalOpen, currentRating, ratingEnquiryId, ratingRequest,
                   ratingOutcome>>
    /\ UNCHANGED <<filterVars, dataVars>>
    /\ UNCHANGED outsideEnquiries

\* The values the slider offers: the two ends of its range and the second.
SliderStops == {0, 1, Len(sortedValidEnquiries) - 1}

NextEnquiries ==
    \/ PoidDataLoaded
    \/ \E key \in stateTabs : StateClick(key)
    \/ \E area \in areaTabs : AreaClick(area)
    \/ \E text \in SearchTerms : SearchEdit(text)
    \/ \E from, to \in SliderStops : SliderChange(from, to)
    \/ \E page \in 1..MaxPages : PageChange(page)
    \/ \E id \in RatedIds : HandleRate(id)
    \/ \E value \in ratingOptions : RatingChosen(value)
    \/ CloseRateModal
    \/ SubmitRating
    \/ \E outcome \in {"ok", "not ok", "failed"} : RatingResponse(outcome)
    \/ DismissSuccess

\* The first render of Enquiries and its effects.
InitEnquiries ==
    /\ today \in Clock
    /\ teamTable = <<>>
    /\ leaveTable = <<>>
    /\ LeaveInit
    /\ AttInit
    /\ HelperInit
    /\ RowsIdle /\ ConfigsIdle /\ AppIdle /\ HomeIdle
    /\ context = Some([userPrincipalName |-> Some(UserPrincipalName)])
    /\ poidData = Null
    /\ localEnquiries = SampleEnquiries
    /\ searchTerm = <<>>
    /\ currentPage = 1
    /\ isRateModalOpen = FALSE
    /\ currentRating = ""
    /\ ratingEnquiryId = Null
    /\ isSuccessVisible = FALSE
    /\ activeMainTab = ""
    /\ convertedEnquiriesList = convertedEnquiriesOf(poidData, SampleEnquiries, <<>>)
    /\ convertedPoidDataList = convertedPoidDataOf(poidData, SampleEnquiries, <<>>)
    /\ selectedArea = Null
    /\ currentSliderStart = sliderOf(SampleEnquiries, [start |-> 0, end |-> 0]).start
    /\ currentSliderEnd = sliderOf(SampleEnquiries, [start |-> 0, end |-> 0]).end
    /\ ratingRequest = Null
    /\ ratingOutcome = "none"

SpecEnquiries == InitEnquiries /\ [][NextEnquiries]_vars

\* ---- claims on the Enquiries tab ----
\* C17: whenever filteredEnquiries is non-empty, currentPage is one of the
\* pages 1..totalPages and the page shown (currentEnquiries) holds at least
\* one and at most enquiriesPerPage enquiries.
C17_PageInRange ==
    Len(filteredEnquiries) > 0 =>
        /\ 1 <= currentPage
        /\ currentPage <= totalPages
        /\ Len(currentEnquiries) >= 1
        /\ Len(currentEnquiries) <= enquiriesPerPage

\* A step in which the update-rating request settles.
RatingSettles == ratingRequest # Null /\ ratingRequest' = Null

\* Every enquiry is as it was, but for the Rating of the one rated.
OnlyRatedChanged ==
    /\ Len(localEnquiries') = Len(localEnquiries)
    /\ \A i \in 1..Len(localEnquiries) :
          \/ localEnquiries'[i] = localEnquiries[i]
          \/ /\ localEnquiries[i].ID = Get(ratingRequest).ID
             /\ localEnquiries'[i] =
                    [localEnquiries[i] EXCEPT !.Rating = localEnquiries'[i].Rating]

\* C18: the success message becomes visible only in a step in which the
\* update-rating request settles with an ok response; when the request
\* fails or is answered with a non-ok status the message is not shown by
\* that step and localEnquiries is unchanged; when it is answered ok, only
\* the enquiry with the rated id has its Rating changed.
C18_RatingMessage ==
    [][ /\ (~isSuccessVisible /\ isSuccessVisible') =>
               (RatingSettles /\ ratingOutcome' = "ok")
        /\ (RatingSettles /\ ratingOutcome' # "ok") =>
               /\ isSuccessVisible' = isSuccessVisible
               /\ localEnquiries' = localEnquiries
        /\ (RatingSettles /\ ratingOutcome' = "ok") => OnlyRatedChanged ]_vars

\* C19: every enquiry of filteredEnquiries is one of enquiriesInSliderRange,
\* whatever the state tab, the search term and the area.
C19_FilteredInSliderRange ==
    \A i \in 1..Len(filteredEnquiries) :
        \E j \in 1..Len(enquiriesInSliderRange) :
            enquiriesInSliderRange[j] = filteredEnquiries[i]

(***************************************************************************)
(* Home: the module-level cache of attendance and annual leave             *)
(***************************************************************************)
outsideHome == <<leaveVars, attVars, helperVars, rowVars, cfgVars, appVars, enqVars>>

\* value || [] of the cache: null and undefined give the empty array, every
\* array, the empty one too, is truthy.
orEmpty(cached) == IF cached = Null THEN <<>> ELSE Get(cached)

cacheHitDataOnly ==
    \/ cachedAttendance # Null
    \/ homeCachedAnnualLeave # Null

\* The condition of the effect on [userData]: one of the four module
\* variables is truthy.
cacheHit ==
    \/ cachedAttendance # Null
    \/ TruthyStr(cachedAttendanceError)
    \/ homeCachedAnnualLeave # Null
    \/ TruthyStr(cachedAnnualLeaveError)

\* error.message || 'Unknown error occurred.'
messageOf(message) == IF message # "" THEN message ELSE "Unknown error occurred."

ensureLZInApprovers(approvers) ==
    LET list == IF approvers = Null THEN <<>> ELSE Get(approvers)
    IN IF \E i \in 1..Len(list) : list[i] = "LZ" THEN list ELSE Append(list, "LZ")

\* The record fetchData makes of a row of annual_leave.
mappedLeave(rec) ==
    [person |-> rec.person,
     start_date |-> rec.start_date,
     end_date |-> rec.end_date,
     reason |-> rec.reason,
     status |-> rec.status,
     id |-> IF rec.request_id # Null /\ Get(rec.request_id) # 0
            THEN StringOf(Get(rec.request_id))
            ELSE IF TruthyText(rec.id) THEN Get(rec.id)
            ELSE <<"t", "e", "m", "p", "-">> \o rec.start_date \o <<"-">> \o rec.end_date,
     rejection_notes |-> IF TruthyStr(rec.rejection_notes) THEN rec.rejection_notes
                         ELSE Null,
     approvers |-> ensureLZInApprovers(rec.approvers)]

mappedAnnualLeaveOf(rows) == [i \in 1..Len(rows) |-> mappedLeave(rows[i])]

\* What the attendance request can end with: a body with attendance and
\* team, with empty arrays, without the two fields, a status that is not
\* ok, and a rejected fetch, one with an empty message.
AttendanceOutcomes ==
    { [kind |-> "ok", attendance |-> Some(<<"LZ: Mon, Tue">>), team |-> Some(<<"LZ">>)],
      [kind |-> "ok", attendance |-> Some(<<>>), team |-> Some(<<>>)],
      [kind |-> "ok", attendance |-> Null, team |-> Null],
      [kind |-> "error", message |-> "Failed to fetch attendance: 500"],
      [kind |-> "error", message |-> ""] }

LeaveDay == <<"1", "2", "-", "2", "4">>

LeaveRows ==
    << [person |-> "AB", start_date |-> LeaveDay, end_date |-> LeaveDay,
        reason |-> "holiday", status |-> "booked", request_id |-> Some(7), id |-> Null,
        rejection_notes |-> Null, approvers |-> Some(<<"LZ", "AC">>)],
       [person |-> "CD", start_date |-> LeaveDay, end_date |-> LeaveDay,
        reason |-> "holiday", status |-> "rejected", request_id |-> Null, id |-> Null,
        rejection_notes |-> Some("too late"), approvers |-> Null] >>

\* What the annual-leave request can end with: a body with rows, with no
\* rows and a future_leave that is no array, with an annual_leave that is no
\* array, a status that is not ok.
AnnualLeaveOutcomes ==
    { [kind |-> "ok", annual_leave |-> Some(LeaveRows),
       future_leave |-> Some(<<LeaveRows[2]>>)],
      [kind |-> "ok", annual_leave |-> Some(<<>>), future_leave |-> Null],
      [kind |-> "ok", annual_leave |-> Null, future_leave |-> Null],
      [kind |-> "error", message |-> "Failed to fetch annual leave: 500"] }

\* A setState of a run reaches the instance that started the run, while it
\* is mounted.
Live(k) == homeMounted /\ fetches[k].instance = homeInstance

\* The effect on [userData], run by the instance `instance'.
RunEffect(instance) ==
    /\ effectsRun' = effectsRun + 1
    /\ IF cacheHit
       THEN /\ attendanceRecords' = Some(orEmpty(cachedAttendance))
            /\ teamData' = Some(orEmpty(cachedTeamData))
            /\ attendanceError' = cachedAttendanceError
            /\ annualLeaveRecords' = orEmpty(homeCachedAnnualLeave)
            /\ annualLeaveError' = cachedAnnualLeaveError
            /\ isLoadingAttendance' = FALSE
            /\ isLoadingAnnualLeave' = FALSE
            /\ isActionsLoading' = FALSE
            /\ fetches' = fetches
            /\ UNCHANGED futureLeaveRecords
       ELSE /\ isLoadingAttendance' = TRUE
            /\ isLoadingAnnualLeave' = TRUE
            /\ fetches' = Append(fetches, [instance |-> instance, stage |-> "attendance"])
            /\ UNCHANGED <<attendanceRecords, teamData, attendanceError,
                           annualLeaveRecords, annualLeaveError, futureLeaveRecords,
                           isActionsLoading>>
    /\ UNCHANGED homeCacheVars

\* App renders Home: a new instance with the useState values, and its effect.
Mount ==
    /\ ~homeMounted
    /\ effectsRun < MaxEffects
    /\ HomeStateDefaults
    /\ homeMounted' = TRUE
    /\ homeInstance' = homeInstance + 1
    /\ UNCHANGED homeInitials
    /\ RunEffect(homeInstance + 1)
    /\ UNCHANGED outsideHome

\* App renders another tab: the instance and its state are gone.
Unmount ==
    /\ homeMounted
    /\ homeMounted' = FALSE
    /\ attendanceRecords' = Some(<<>>)
    /\ teamData' = Some(<<>>)
    /\ attendanceError' = Null
    /\ annualLeaveRecords' = <<>>
    /\ annualLeaveError' = Null
    /\ futureLeaveRecords' = <<>>
    /\ isLoadingAttendance' = FALSE
    /\ isLoadingAnnualLeave' = FALSE
    /\ isActionsLoading' = TRUE
    /\ UNCHANGED <<homeCacheVars, homeInstance, homeInitials, fetches, effectsRun>>
    /\ UNCHANGED outsideHome

\* App passes another userData: the effect runs again.
UserDataChanged(inits) ==
    /\ homeMounted
    /\ effectsRun < MaxEffects
    /\ inits # homeInitials
    /\ homeInitials' = inits
    /\ RunEffect(homeInstance)
    /\ UNCHANGED <<homeMounted, homeInstance>>
    /\ UNCHANGED outsideHome

\* The attendance request of run k ends: the first try block of fetchData,
\* up to the await of the annual-leave request.
AttendanceSettled(k, outcome) ==
    /\ fetches[k].stage = "attendance"
    /\ IF outcome.kind = "ok"
       THEN /\ cachedAttendance' = outcome.attendance
            /\ cachedTeamData' = outcome.team
            /\ UNCHANGED cachedAttendanceError
            /\ IF Live(k)
               THEN /\ attendanceRecords' = outcome.attendance
                    /\ teamData' = outcome.team
                    /\ UNCHANGED attendanceError
               ELSE UNCHANGED <<attendanceRecords, teamData, attendanceError>>
       ELSE /\ cachedAttendanceError' = Some(messageOf(outcome.message))
            /\ UNCHANGED <<cachedAttendance, cachedTeamData>>
            /\ IF Live(k)
               THEN /\ attendanceError' = Some(messageOf(outcome.message))
                    /\ attendanceRecords' = Some(<<>>)
                    /\ teamData' = Some(<<>>)
               ELSE UNCHANGED <<attendanceRecords, teamData, attendanceError>>
    /\ isLoadingAttendance' = IF Live(k) THEN FALSE ELSE isLoadingAttendance
    /\ fetches' = [fetches EXCEPT ![k].stage = "annual leave"]
    /\ UNCHANGED <<homeCachedAnnualLeave, cachedAnnualLeaveError, annualLeaveRecords,
                   annualLeaveError, futureLeaveRecords, isLoadingAnnualLeave,
                   isActionsLoading>>
    /\ UNCHANGED <<homeMounted, homeInstance, homeInitials, effectsRun>>
    /\ UNCHANGED outsideHome

\* The annual-leave request of run k ends: the second try block of fetchData.
AnnualLeaveSettled(k, outcome) ==
    /\ fetches[k].stage = "annual leave"
    /\ IF outcome.kind = "ok" /\ outcome.annual_leave # Null
       THEN /\ homeCachedAnnualLeave' = Some(mappedAnnualLeaveOf(Get(outcome.annual_leave)))
            /\ UNCHANGED cachedAnnualLeaveError
            /\ IF Live(k)
               THEN /\ annualLeaveRecords' = mappedAnnualLeaveOf(Get(outcome.annual_leave))
                    /\ futureLeaveRecords' =
                           IF outcome.future_leave # Null
                           THEN mappedAnnualLeaveOf(Get(outcome.future_leave))
                           ELSE futureLeaveRecords
                    /\ UNCHANGED annualLeaveError
               ELSE UNCHANGED <<annualLeaveRecords, annualLeaveError, futureLeaveRecords>>
       ELSE LET message == IF outcome.kind = "ok"
                           THEN "Invalid annual leave data format."
                           ELSE outcome.message
            IN /\ cachedAnnualLeaveError' = Some(messageOf(message))
               /\ UNCHANGED homeCachedAnnualLeave
               /\ IF Live(k)
                  THEN /\ annualLeaveError' = Some(messageOf(message))
                       /\ annualLeaveRecords' = <<>>
                       /\ UNCHANGED futureLeaveRecords
                  ELSE UNCHANGED <<annualLeaveRecords, annualLeaveError,
                                   futureLeaveRecords>>
    /\ isLoadingAnnualLeave' = IF Live(k) THEN FALSE ELSE isLoadingAnnualLeave
    /\ isActionsLoading' = IF Live(k) THEN FALSE ELSE isActionsLoading
    /\ fetches' = [fetches EXCEPT ![k].stage = "done"]
    /\ UNCHANGED <<cachedAttendance, cachedAttendanceError, cachedTeamData,
                   attendanceRecords, teamData, attendanceError, isLoadingAttendance>>
    /\ UNCHANGED <<homeMounted, homeInstance, homeInitials, effectsRun>>
    /\ UNCHANGED outsideHome

UserInitials == {"", "AB"}

NextHome ==
    \/ Mount
    \/ Unmount
    \/ \E inits \in UserInitials : UserDataChanged(inits)
    \/ \E k \in 1..Len(fetches) : \E outcome \in AttendanceOutcomes :
           AttendanceSettled(k, outcome)
    \/ \E k \in 1..Len(fetches) : \E outcome \in AnnualLeaveOutcomes :
           AnnualLeaveSettled(k, outcome)

\* The page is loaded: the module variables are null and Home is not yet
\* rendered.
InitHome ==
    /\ today \in Clock
    /\ teamTable = <<>>
    /\ leaveTable = <<>>
    /\ LeaveInit
    /\ AttInit
    /\ HelperInit
    /\ UnitsIdle

SpecHome == InitHome /\ [][NextHome]_vars

\* ---- claims on Home ----
\* The requests the runs of fetchData have issued: one by a run that awaits
\* attendance, two by a run that is further.
RECURSIVE RequestsIssued(_)
RequestsIssued(runs) ==
    IF runs = <<>> THEN 0
    ELSE RequestsIssued(Tail(runs)) + (IF Head(runs).stage = "attendance" THEN 1 ELSE 2)

\* A run of fetchData has completed, each part with data or with an error.
RunCompleted == \E k \in 1..Len(fetches) : fetches[k].stage = "done"

\* C20: once a run of fetchData has completed, every step in which Home is
\* mounted or userData changes leaves attendance, team and annual-leave
\* data and the two errors as the module variables hold them, and issues no
\* request; so it is with a cached error, which is not tried again.
C20_CacheRestores ==
    [][ (RunCompleted /\ (homeInstance' # homeInstance \/ homeInitials' # homeInitials)) =>
            /\ RequestsIssued(fetches') = RequestsIssued(fetches)
            /\ homeCacheVars' = homeCacheVars
            /\ attendanceRecords' = Some(orEmpty(cachedAttendance))
            /\ teamData' = Some(orEmpty(cachedTeamData))
            /\ attendanceError' = cachedAttendanceError
            /\ annualLeaveRecords' = orEmpty(homeCachedAnnualLeave)
            /\ annualLeaveError' = cachedAnnualLeaveError ]_vars

\* A run has completed with two errors and a later instance of Home shows
\* them without a request of its own.
C20_Witness ==
    /\ \E k \in 1..Len(fetches) : fetches[k].stage = "done" /\ fetches[k].instance < homeInstance
    /\ \A k \in 1..Len(fetches) : fetches[k].instance < homeInstance
    /\ homeMounted
    /\ cachedAttendance = Null /\ homeCachedAnnualLeave = Null
    /\ cachedAttendanceError # Null /\ attendanceError = cachedAttendanceError
    /\ cachedAnnualLeaveError # Null /\ annualLeaveError = cachedAnnualLeaveError
    /\ ~isActionsLoading

(***************************************************************************)
(* Home: the leave to approve and to book, from the handler's response     *)
(***************************************************************************)
APPROVERS == <<"AC", "JW", "LZ">>

\* userInitials is homeInitials: userData?.[0]?.Initials || ''
isApprover == \E i \in 1..Len(APPROVERS) : APPROVERS[i] = homeInitials

combinedLeaveRecords == annualLeaveRecords \o futureLeaveRecords

\* toLowerCase of the initials of the sample.
lowerInitials(s) ==
    CASE s = "AB" -> "ab" [] s = "AC" -> "ac" [] s = "EF" -> "ef"
      [] s = "JW" -> "jw" [] s = "LZ" -> "lz"
      [] OTHER -> s

approvalsNeededOfAnyApprover ==
    LET Requested(x) == x.status = "requested"
    IN IF isApprover THEN SelectSeq(combinedLeaveRecords, Requested) ELSE <<>>

approvalsNeeded ==
    LET Needed(x) ==
            /\ x.status = "requested"
            /\ \E i \in 1..Len(x.approvers) : x.approvers[i] = homeInitials
    IN IF isApprover THEN SelectSeq(combinedLeaveRecords, Needed) ELSE <<>>

bookingsNeeded ==
    LET Booked(x) ==
            /\ x.status = "approved" \/ x.status = "rejected"
            /\ lowerInitials(x.person) = lowerInitials(homeInitials)
    IN SelectSeq(annualLeaveRecords \o futureLeaveRecords, Booked)

\* The rows of annual_leave and future_leave as the body of the response
\* carries the handler's entries.
responseRows(entries) ==
    [i \in 1..Len(entries) |->
        [person |-> entries[i].person,
         start_date |-> entries[i].start_date,
         end_date |-> entries[i].end_date,
         reason |-> entries[i].reason,
         status |-> entries[i].status,
         request_id |-> Some(entries[i].request_id),
         id |-> Null,
         rejection_notes |-> entries[i].rejection_notes,
         approvers |-> Some(entries[i].approvers)]]

\* The response of getAnnualLeave to the annual-leave request of Home.
HandlerResponse ==
    [kind |-> "ok",
     annual_leave |-> Some(responseRows(Get(routed).annual_leave)),
     future_leave |-> Some(responseRows(Get(routed).future_leave))]

\* Leave of today and of later days: requested by AB (twice), by EF, who has
\* no team row, and by JW; approved for AB, rejected for JW.
ApprovalsLeave ==
    << LeaveRow(1, Some("AB"), D(2025, 2, 30), D(2025, 3, 1), Some("requested"), Some(2),
                Some("standard"), Null),
       LeaveRow(2, Some("EF"), D(2025, 2, 31), D(2025, 2, 31), Some("requested"), Some(1),
                Some("standard"), Null),
       LeaveRow(3, Some("AB"), D(2025, 4, 1), D(2025, 4, 2), Some("requested"), Some(2),
                Some("standard"), Null),
       LeaveRow(4, Some("JW"), D(2025, 5, 1), D(2025, 5, 1), Some("requested"), Some(1),
                Some("standard"), Null),
       LeaveRow(5, Some("AB"), D(2025, 2, 31), D(2025, 3, 2), Some("approved"), Some(3),
                Some("standard"), Null),
       LeaveRow(6, Some("JW"), D(2025, 6, 1), D(2025, 6, 1), Some("rejected"), Some(1),
                Some("standard"), Some("no cover")) >>

\* The AOW of AB: no item, one item with a blank after it, or 'property' and
\* a second item after a blank.
ApprovalsAowItems ==
    { items \in ItemLists :
        \/ Len(items) = 0
        \/ Len(items) = 1 /\ items[1].lead = <<>> /\ items[1].trail = <<" ">>
        \/ /\ Len(items) = 2
           /\ items[1] = [lead |-> <<>>, word |-> <<"p", "r", "o", "p", "e", "r", "t", "y">>,
                          trail |-> <<>>]
           /\ items[2].lead = <<" ">>
           /\ items[2].trail = <<>> }

\* The team rows of the two approvers by area: JW in construction, AC not.
ApproverRows ==
    << TeamRow(Some("JW"), Some(Capitalised(Construction))),
       TeamRow(Some("AC"), Some(<<"C", "o", "m", "m", "e", "r", "c", "i", "a", "l">>)) >>

\* The users of Home: the three approvers, AB with the initials in lower
\* case, and the initials of an approver in lower case.
ApprovalsUsers == {"AC", "JW", "LZ", "ab", "lz"}

\* The attendance request answered with data.
AttendanceLoaded ==
    [kind |-> "ok", attendance |-> Some(<<"LZ: Mon, Tue">>), team |-> Some(<<"LZ">>)]

InitApprovals ==
    /\ today \in Clock
    /\ leaveTable = ApprovalsLeave
    /\ \E items \in ApprovalsAowItems :
          /\ aowItems = items
          /\ \/ teamTable = <<TeamRow(Some("AB"), Some(JoinItems(items)))>> \o ApproverRows
             \/ items = <<>> /\ teamTable = <<TeamRow(Some("AB"), Null)>> \o ApproverRows
             \/ items = <<>> /\ teamTable = ApproverRows
    /\ LeaveInit
    /\ AttInit
    /\ userLeave = Null
    /\ routed = Null
    /\ RowsIdle /\ ConfigsIdle /\ AppIdle /\ EnquiriesIdle
    /\ HomeUnloaded
    /\ homeInitials \in ApprovalsUsers

\* The handler answers the annual-leave request of run k.
AnnualLeaveAnswered(k) ==
    /\ routed # Null
    /\ AnnualLeaveSettled(k, HandlerResponse)

NextApprovals ==
    \/ Route
    \/ Mount
    \/ Unmount
    \/ \E inits \in ApprovalsUsers : UserDataChanged(inits)
    \/ \E k \in 1..Len(fetches) : AttendanceSettled(k, AttendanceLoaded)
    \/ \E k \in 1..Len(fetches) : AnnualLeaveAnswered(k)

SpecApprovals == InitApprovals /\ [][NextApprovals]_vars

\* ---- claims on the leave to approve and to book ----
\* The record is one of approvalsNeeded: it is offered to the user.
Offered(rec) == \E i \in 1..Len(approvalsNeeded) : approvalsNeeded[i] = rec

\* The AOW of the person in the team table has an item 'construction'.
InConstruction(person) ==
    \/ person = "JW"
    \/ /\ person = "AB"
       /\ TableAow("AB") # Null
       /\ \E k \in 1..Len(aowItems) : aowItems[k].word \in ConstructionWords

\* The places of the list whose records satisfy the condition.
Places(list, Cond(_)) == { i \in 1..Len(list) : Cond(list[i]) }

\* C21: approvalsNeeded is empty for a user who is none of AC, JW, LZ; for
\* an approver it is exactly the records of annualLeaveRecords and
\* futureLeaveRecords with status 'requested' whose approvers contain the
\* user's initials; a requested leave of a person in construction is offered
\* to JW and LZ and not to AC, any other requested leave to AC and LZ and
\* not to JW; bookingsNeeded is exactly the user's own records with status
\* 'approved' or 'rejected'.
C21_ApprovalsAndBookings ==
    LET records == annualLeaveRecords \o futureLeaveRecords
        ForUser(x) == /\ x.status = "requested"
                      /\ \E i \in 1..Len(x.approvers) : x.approvers[i] = homeInitials
        Own(x) == /\ x.status \in {"approved", "rejected"}
                  /\ lowerInitials(x.person) = lowerInitials(homeInitials)
        InApprovals(x) == Offered(x)
        InBookings(x) == \E i \in 1..Len(bookingsNeeded) : bookingsNeeded[i] = x
    IN /\ homeInitials \notin {"AC", "JW", "LZ"} => approvalsNeeded = <<>>
       /\ homeInitials \in {"AC", "JW", "LZ"} =>
             /\ Len(approvalsNeeded) = Cardinality(Places(records, ForUser))
             /\ Places(approvalsNeeded, ForUser) = 1..Len(approvalsNeeded)
             /\ \A i \in 1..Len(records) : ForUser(records[i]) <=> Offered(records[i])
             /\ \A i \in 1..Len(approvalsNeeded) :
                   \E j \in 1..Len(records) : records[j] = approvalsNeeded[i]
       /\ \A i \in 1..Len(records) :
             records[i].status = "requested" =>
                 IF InConstruction(records[i].person)
                 THEN Offered(records[i]) <=> homeInitials \in {"JW", "LZ"}
                 ELSE Offered(records[i]) <=> homeInitials \in {"AC", "LZ"}
       /\ Len(bookingsNeeded) = Cardinality(Places(records, Own))
       /\ \A i \in 1..Len(records) : Own(records[i]) <=> InBookings(records[i])
       /\ \A i \in 1..Len(bookingsNeeded) :
             \E j \in 1..Len(records) : records[j] = bookingsNeeded[i]

\* C21 witness: JW is offered the requested leave of AB, whose AOW is
\* 'property, Construction', and JW's own, not that of EF, and is to book
\* JW's rejected leave.
C21_Witness ==
    /\ homeMounted
    /\ homeInitials = "JW"
    /\ Len(aowItems) = 2
    /\ aowItems[2].word = Capitalised(Construction)
    /\ Len(annualLeaveRecords) > 0 /\ Len(futureLeaveRecords) > 0
    /\ \E i \in 1..Len(approvalsNeeded) : approvalsNeeded[i].person = "AB"
    /\ \E i \in 1..Len(approvalsNeeded) : approvalsNeeded[i].person = "JW"
    /\ \E i \in 1..Len(combinedLeaveRecords) :
          /\ combinedLeaveRecords[i].person = "EF"
          /\ combinedLeaveRecords[i].status = "requested"
          /\ ~Offered(combinedLeaveRecords[i])
    /\ Len(bookingsNeeded) = 1
    /\ bookingsNeeded[1].status = "rejected"

====
